---- MODULE Spec2Model ----
(***************************************************************************)
(* A model of the annual orchestration engine of the public-finance        *)
(* simulation (src/src/simulation.py) and of its twelve sector models      *)
(* (src/src/models/*.py).                                                  *)
(*                                                                         *)
(* Numbers.  The code computes in binary floating point; the model in      *)
(* fixed point.  A rate, ratio or index r is the integer r * S (0.08 is    *)
(* 80), an amount of money a is the integer a * U (1000.0 is 100000).  A   *)
(* product of an amount and a rate is rounded down to an even integer, so  *)
(* that the amounts the orchestrator adds up can be halved exactly, as a   *)
(* float can; the split of the deficit financing keeps the odd digit.      *)
(* The governance index (0..100 in the code) is the integer index * S.     *)
(*                                                                         *)
(* Python dicts are functions from strings; a key that is absent is        *)
(* absent from the DOMAIN.  np.nan is NaN (the empty tuple) and a ledger   *)
(* value v is <<v>>.                                                       *)
(***************************************************************************)
EXTENDS Integers, Sequences, FiniteSets, TLC

S == 10 * 100
U == 10 * 10

\* Bounds of the model.
MaxYears == 2
MaxCalls == 3

Max(a, b) == IF a >= b THEN a ELSE b
Min(a, b) == IF a <= b THEN a ELSE b

\* rate * rate, and amount * share keeping the odd digit
Mul(a, r) == (a * r) \div S
\* amount * rate
MulA(a, r) == 2 * ((a * r) \div (2 * S))
\* a / b as a rate, b > 0
Ratio(a, b) == (a * S) \div b

EmptyDict == [k \in {} |-> 0]
Get(d, k, default) == IF k \in DOMAIN d THEN d[k] ELSE default
Put(d, k, v) == (k :> v) @@ d
Update(d, e) == e @@ d

NaN == <<>>
Num(v) == <<v>>
GetNum(d, k) == IF k \in DOMAIN d THEN Num(d[k]) ELSE NaN
\* x / gdp if gdp else nan
DivGdp(x, gdp) == IF gdp = 0 \/ x = NaN THEN NaN ELSE Num(Ratio(x[1], gdp))

\* What a sector call hands back: a dict, or a tuple (the early returns).
RetDict(d) == [kind |-> "dict", val |-> d]
RetTuple(t) == [kind |-> "tuple", val |-> t]

\* state.get('economic_state', {}).get(k, default)
Econ(st, k, default) == Get(Get(st, "economic_state", EmptyDict), k, default)
\* state.get('governance_state', {}).get(k, default)
Gov(st, k, default) == Get(Get(st, "governance_state", EmptyDict), k, default)

(***************************************************************************)
(* GovernanceModel                                                         *)
(***************************************************************************)
GovernanceModel(config) ==
  [ pfm_reform_level |-> Get(config, "initial_pfm_level", 400),
    nbr_capacity_level |-> Get(config, "initial_nbr_level", 500),
    central_bank_capacity |-> Get(config, "initial_cb_level", 600),
    anti_corruption_effectiveness |-> Get(config, "initial_ac_level", 300),
    accountability_score |-> Get(config, "initial_accountability_score", 400),
    pfm_improvement_rate |-> Get(config, "pfm_improvement_rate", 15),
    nbr_improvement_rate |-> Get(config, "nbr_improvement_rate", 10),
    cb_improvement_rate |-> Get(config, "cb_improvement_rate", 5),
    ac_improvement_rate |-> Get(config, "ac_improvement_rate", 8),
    accountability_improvement_rate |-> Get(config, "accountability_improvement_rate", 12),
    weights |-> Get(config, "governance_weights",
                    [pfm |-> 250, nbr |-> 200, cb |-> 150, ac |-> 200, accountability |-> 200]),
    governance_index |-> 0 ]

_update_governance_areas(self) ==
  [self EXCEPT
    !.pfm_reform_level = Min(950, @ + self.pfm_improvement_rate),
    !.nbr_capacity_level = Min(950, @ + self.nbr_improvement_rate),
    !.central_bank_capacity = Min(950, @ + self.cb_improvement_rate),
    !.anti_corruption_effectiveness = Min(950, @ + self.ac_improvement_rate),
    !.accountability_score = Min(950, @ + self.accountability_improvement_rate)]

_calculate_governance_index(self) ==
  LET index == Mul(self.pfm_reform_level, self.weights.pfm)
             + Mul(self.nbr_capacity_level, self.weights.nbr)
             + Mul(self.central_bank_capacity, self.weights.cb)
             + Mul(self.anti_corruption_effectiveness, self.weights.ac)
             + Mul(self.accountability_score, self.weights.accountability)
  IN [self EXCEPT !.governance_index = index * 100]

simulate_governance_evolution(self, st) ==
  LET m == _calculate_governance_index(_update_governance_areas(self))
  IN [self |-> m,
      ret |-> RetDict([governance_index |-> m.governance_index,
                       pfm_reform_level |-> m.pfm_reform_level,
                       nbr_modernization_level |-> m.nbr_capacity_level,
                       central_bank_capacity |-> m.central_bank_capacity,
                       anti_corruption_effectiveness |-> m.anti_corruption_effectiveness,
                       accountability_score |-> m.accountability_score])]

(***************************************************************************)
(* SupervisionModel                                                        *)
(***************************************************************************)
SupervisionModel(config) ==
  [ base_effectiveness |-> Get(config, "initial_supervision_effectiveness", 600),
    cb_capacity_weight |-> Get(config, "cb_capacity_weight", 500),
    financial_stability_weight |-> Get(config, "financial_stability_weight", 300),
    regulatory_reform_impact |-> Get(config, "regulatory_reform_impact", 10),
    current_effectiveness |-> Get(config, "initial_supervision_effectiveness", 600) ]

_update_effectiveness(self, st) ==
  LET cb_capacity == Gov(st, "central_bank_capacity", 600)
      npl_ratio == Get(st, "npl_ratio", 110)
      stability_proxy == Max(0, S - Ratio(npl_ratio, 250))
      target_effectiveness == Mul(self.cb_capacity_weight, cb_capacity)
                            + Mul(self.financial_stability_weight, stability_proxy)
                            + self.regulatory_reform_impact
      moved == Mul(self.current_effectiveness, 900) + Mul(target_effectiveness, 100)
  IN [self EXCEPT !.current_effectiveness = Max(200, Min(950, moved))]

simulate_supervision_effectiveness(self, st) ==
  LET m == _update_effectiveness(self, st)
  IN [self |-> m, ret |-> m.current_effectiveness]

(***************************************************************************)
(* FinancialSectorModel                                                    *)
(***************************************************************************)
FinancialSectorModel(config) ==
  [ npl_ratio |-> Get(config, "initial_npl_ratio", 110),
    capital_adequacy_ratio |-> Get(config, "initial_car", 120),
    required_car |-> Get(config, "required_car", 100),
    npl_gdp_sensitivity |-> Get(config, "npl_gdp_sensitivity", -500),
    npl_supervision_sensitivity |-> Get(config, "npl_supervision_sensitivity", -200) ]

_update_npls(self, st) ==
  LET gdp_growth == Econ(st, "gdp_growth", 60)
      supervision_effectiveness == Get(st, "supervision_effectiveness", 700)
      delta_npl_gdp == Mul(self.npl_gdp_sensitivity, gdp_growth - 40)
      delta_npl_supervision == Mul(self.npl_supervision_sensitivity, supervision_effectiveness - 600)
  IN [self EXCEPT !.npl_ratio = Max(10, @ + delta_npl_gdp + delta_npl_supervision)]

_update_capital_adequacy_unclamped(self) ==
  [self EXCEPT !.capital_adequacy_ratio =
     IF self.npl_ratio > 150 THEN Mul(@, 980) ELSE Mul(@, 1010)]

_update_capital_adequacy(self) ==
  LET car == IF self.npl_ratio > 150
             THEN Mul(self.capital_adequacy_ratio, 980)
             ELSE Mul(self.capital_adequacy_ratio, 1010)
  IN [self EXCEPT !.capital_adequacy_ratio = Max(50, Min(250, car))]

_calculate_stability_index(self) ==
  LET npl_score == Max(0, S - Ratio(self.npl_ratio, 200))
      car_buffer == self.capital_adequacy_ratio - self.required_car
      car_score == Max(0, Min(S, Ratio(car_buffer, 50)))
  IN Mul(600, npl_score) + Mul(400, car_score)

simulate_financial_system(self, st) ==
  LET m == _update_capital_adequacy(_update_npls(self, st))
  IN [self |-> m,
      ret |-> RetDict([npl_ratio |-> m.npl_ratio,
                       capital_adequacy_ratio |-> m.capital_adequacy_ratio,
                       stability_index |-> _calculate_stability_index(m)])]

(***************************************************************************)
(* MonetaryPolicyModel                                                     *)
(***************************************************************************)
MonetaryPolicyModel(config) ==
  [ target_inflation |-> Get(config, "target_inflation_band", <<40, 60>>),
    policy_rate |-> Get(config, "initial_policy_rate", 60),
    inflation_gap_weight |-> Get(config, "inflation_gap_weight", 1500),
    policy_transmission_lag |-> Get(config, "policy_transmission_lag", 100) ]

_adjust_policy_rate(self, st) ==
  LET current_inflation == Get(st, "inflation", 70)
      inflation_target_midpoint == (self.target_inflation[1] + self.target_inflation[2]) \div 2
      inflation_gap == current_inflation - inflation_target_midpoint
      rate_adjustment == Mul(self.inflation_gap_weight, inflation_gap)
  IN [self EXCEPT !.policy_rate = Max(10, Min(150, @ + rate_adjustment))]

_simulate_inflation_impact(self, st) ==
  LET current_inflation == Get(st, "inflation", 70)
      projected == current_inflation - Mul(self.policy_transmission_lag, self.policy_rate - 60)
      inert == Mul(800, projected) + Mul(200, current_inflation)
  IN Max(0, Min(200, inert))

simulate_monetary_conditions(self, st) ==
  LET m == _adjust_policy_rate(self, st)
  IN [self |-> m, ret |-> <<m.policy_rate, _simulate_inflation_impact(m, st)>>]

(***************************************************************************)
(* ExternalSectorModel                                                     *)
(***************************************************************************)
ExternalSectorModel(config) ==
  [ initial_export_gdp |-> Get(config, "initial_export_gdp", 150),
    initial_import_gdp |-> Get(config, "initial_import_gdp", 220),
    initial_remittance_gdp |-> Get(config, "initial_remittance_gdp", 50),
    initial_fdi_gdp |-> Get(config, "initial_fdi_gdp", 10),
    initial_reserves_months_import |-> Get(config, "initial_reserves_months_import", 5000),
    export_global_growth_sensitivity |-> Get(config, "export_global_growth_sens", 1500),
    import_domestic_growth_sensitivity |-> Get(config, "import_domestic_growth_sens", 1200),
    remittance_global_growth_sensitivity |-> Get(config, "remittance_global_growth_sens", 800),
    fdi_governance_sensitivity |-> Get(config, "fdi_governance_sens", 50),
    global_growth_factor |-> Get(config, "global_growth_factor", 1020),
    exports |-> 0, imports |-> 0, remittances |-> 0, fdi |-> 0,
    current_account_balance |-> 0, financial_account_balance |-> 0,
    overall_bop |-> 0, fx_reserves |-> 0, initialized |-> FALSE ]

ExternalSector_initialize_state(self, initial_gdp) ==
  LET imports == MulA(initial_gdp, self.initial_import_gdp)
  IN [self EXCEPT
        !.exports = MulA(initial_gdp, self.initial_export_gdp),
        !.imports = imports,
        !.remittances = MulA(initial_gdp, self.initial_remittance_gdp),
        !.fdi = MulA(initial_gdp, self.initial_fdi_gdp),
        !.fx_reserves = MulA(imports, self.initial_reserves_months_import \div 12),
        !.initialized = TRUE]

\* global_factor is the draw random.uniform(0.98, 1.05)
_project_flows(self, st, global_factor) ==
  LET gdp_growth == Econ(st, "gdp_growth", 50)
      governance_score == Gov(st, "governance_index", 50 * S) \div 100
  IN [self EXCEPT
        !.exports = Max(0, MulA(@, S + Mul(gdp_growth, 500)
                                     + Mul(global_factor - S, self.export_global_growth_sensitivity))),
        !.imports = Max(0, MulA(@, S + Mul(gdp_growth, self.import_domestic_growth_sensitivity))),
        !.remittances = Max(0, MulA(@, S + Mul(global_factor - S, self.remittance_global_growth_sensitivity))),
        !.fdi = Max(0, MulA(@, S + gdp_growth
                                 + Mul(self.fdi_governance_sensitivity, governance_score - 500)))]

_calculate_bop(self) ==
  LET cab == (self.exports - self.imports) + self.remittances
  IN [self EXCEPT
        !.current_account_balance = cab,
        !.financial_account_balance = self.fdi,
        !.overall_bop = cab + self.fdi]

\* The divisor of line 95, self.imports / 12.0, is zero when imports is.
Divisors_update_reserves(self) ==
  IF self.imports > 0 THEN {self.imports} ELSE {}

_update_reserves_unfloored(self) ==
  [self EXCEPT !.fx_reserves = @ + self.overall_bop]

_update_reserves(self) ==
  [self EXCEPT !.fx_reserves = Max(0, @ + self.overall_bop)]

months_of_imports(self) ==
  IF self.imports > 0 THEN (self.fx_reserves * 12 * S) \div self.imports ELSE 0

simulate_external_sector(self, st, global_factor) ==
  LET initial_gdp == Econ(st, "gdp", 0)
      m0 == IF self.initialized THEN self ELSE ExternalSector_initialize_state(self, initial_gdp)
      m == _update_reserves(_calculate_bop(_project_flows(m0, st, global_factor)))
  IN IF ~self.initialized /\ ~(initial_gdp > 0)
     THEN [self |-> self, ret |-> RetTuple(<<EmptyDict, 0>>)]
     ELSE [self |-> m,
           ret |-> RetDict([exports |-> m.exports,
                            imports |-> m.imports,
                            remittances |-> m.remittances,
                            fdi |-> m.fdi,
                            current_account_balance |-> m.current_account_balance,
                            overall_bop |-> m.overall_bop,
                            fx_reserves |-> m.fx_reserves,
                            reserves_months_imports |-> months_of_imports(m)])]

(***************************************************************************)
(* DevelopmentFinanceModel                                                 *)
(***************************************************************************)
DevelopmentFinanceModel(config) ==
  [ initial_grant_aid_gdp |-> Get(config, "initial_grant_aid_gdp", 8),
    initial_dfi_net_lending_gdp |-> Get(config, "initial_dfi_net_lending_gdp", 15),
    grant_global_factor_sensitivity |-> Get(config, "grant_global_factor_sens", 500),
    dfi_lending_governance_sensitivity |-> Get(config, "dfi_lending_governance_sens", 300),
    absorption_capacity_sensitivity |-> Get(config, "absorption_capacity_sens", 400),
    grant_aid |-> 0, dfi_net_lending |-> 0, initialized |-> FALSE ]

DevelopmentFinance_initialize_state(self, initial_gdp) ==
  [self EXCEPT
     !.grant_aid = MulA(initial_gdp, self.initial_grant_aid_gdp),
     !.dfi_net_lending = MulA(initial_gdp, self.initial_dfi_net_lending_gdp),
     !.initialized = TRUE]

\* global_aid_factor is the draw random.uniform(0.90, 1.10)
_simulate_flows(self, st, global_aid_factor) ==
  LET gdp_growth == Econ(st, "gdp_growth", 50)
      governance_score == Gov(st, "governance_index", 50 * S) \div 100
      pfm_level == Gov(st, "pfm_reform_level", 400)
      grant_growth_factor ==
        Mul(Mul(S + Mul(gdp_growth, 200),
                S + Mul(global_aid_factor - S, self.grant_global_factor_sensitivity)),
            S + Mul(pfm_level - 500, self.absorption_capacity_sensitivity))
      dfi_growth_factor ==
        Mul(S + Mul(gdp_growth, 500),
            S + Mul(governance_score - 500, self.dfi_lending_governance_sensitivity))
  IN [self EXCEPT
        !.grant_aid = Max(0, MulA(@, grant_growth_factor)),
        !.dfi_net_lending = Max(0, MulA(@, dfi_growth_factor))]

simulate_development_finance(self, st, global_aid_factor) ==
  LET initial_gdp == Econ(st, "gdp", 0)
      m0 == IF self.initialized THEN self ELSE DevelopmentFinance_initialize_state(self, initial_gdp)
      m == _simulate_flows(m0, st, global_aid_factor)
  IN IF ~self.initialized /\ ~(initial_gdp > 0)
     THEN [self |-> self, ret |-> RetTuple(<<EmptyDict, 0, 0>>)]
     ELSE [self |-> m,
           ret |-> RetDict([grant_aid |-> m.grant_aid,
                            dfi_net_lending |-> m.dfi_net_lending])]

(***************************************************************************)
(* RevenueModel                                                            *)
(***************************************************************************)
RevenueModel(config) ==
  [ tax_structure |-> Get(config, "tax_structure", EmptyDict),
    current_compliance_rate |->
      Get(Get(config, "compliance_params", EmptyDict), "initial_compliance", 600),
    current_admin_efficiency |->
      Get(Get(config, "admin_capacity", EmptyDict), "initial_efficiency", 700),
    formal_sector_share |->
      S - Get(Get(config, "informality_metrics", EmptyDict), "initial_share", 300) ]

_calculate_tax_potential(self, economic_state) ==
  LET gdp == Get(economic_state, "gdp", 0)
      potential_vat == MulA(MulA(gdp, 400), Get(self.tax_structure, "vat_rate", 150))
      potential_income_tax == MulA(MulA(gdp, 300), Get(self.tax_structure, "avg_income_tax_rate", 100))
      potential_corp_tax == MulA(MulA(gdp, 200), Get(self.tax_structure, "avg_corp_tax_rate", 250))
      potential_trade_tax == MulA(Get(economic_state, "imports", MulA(gdp, 200)),
                                  Get(self.tax_structure, "avg_trade_tax", 50))
  IN potential_vat + potential_income_tax + potential_corp_tax + potential_trade_tax

_update_internal_state(self, economic_state, governance_state) ==
  LET improved == Get(governance_state, "nbr_modernization_level", 0) > self.current_admin_efficiency
      growing == Get(economic_state, "gdp_growth", 0) > 50
  IN [self EXCEPT
        !.current_admin_efficiency = IF improved THEN Min(S, Mul(@, 1010)) ELSE @,
        !.current_compliance_rate = IF growing THEN Min(950, Mul(@, 1005)) ELSE @]

project_revenue(self, economic_state, governance_state) ==
  LET potential == _calculate_tax_potential(self, economic_state)
      structurally_adjusted == MulA(potential, self.formal_sector_share)
      admin_adjusted == MulA(structurally_adjusted, self.current_admin_efficiency)
      final_revenue == MulA(admin_adjusted, self.current_compliance_rate)
  IN [self |-> _update_internal_state(self, economic_state, governance_state),
      ret |-> RetDict([final_revenue |-> final_revenue])]

(***************************************************************************)
(* FiscalFederalismModel                                                   *)
(***************************************************************************)
FiscalFederalismModel(config) ==
  [ transfer_ratio_central_revenue |-> Get(config, "transfer_ratio_central_revenue", 100),
    initial_subnational_revenue_gdp |-> Get(config, "initial_subnational_revenue_gdp", 5),
    subnational_revenue_capacity_growth |-> Get(config, "subnational_revenue_capacity_growth", 10),
    subnational_spending_efficiency |-> Get(config, "subnational_spending_efficiency", 800),
    subnational_debt_limit_gdp |-> Get(config, "subnational_debt_limit_gdp", 20),
    subnational_revenue_capacity_index |-> S,
    total_transfers |-> 0, total_subnational_own_revenue |-> 0,
    total_subnational_spending |-> 0, aggregate_subnational_debt |-> 0,
    initialized |-> FALSE ]

FiscalFederalism_initialize_state(self, initial_gdp) ==
  [self EXCEPT
     !.total_subnational_own_revenue = MulA(initial_gdp, self.initial_subnational_revenue_gdp),
     !.aggregate_subnational_debt = MulA(MulA(initial_gdp, self.subnational_debt_limit_gdp), 500),
     !.initialized = TRUE]

_calculate_central_transfers(self, st) ==
  LET central_revenue == Get(Get(st, "revenue_state", EmptyDict), "final_revenue", 0)
  IN [self EXCEPT !.total_transfers = MulA(central_revenue, self.transfer_ratio_central_revenue)]

_simulate_subnational_revenue(self, st) ==
  LET gdp == Econ(st, "gdp", U)
      gdp_growth == Econ(st, "gdp_growth", 50)
      inflation == Get(st, "inflation", 60)
      nominal_gdp_growth == Mul(S + gdp_growth, S + inflation) - S
      base_rev == IF ~self.initialized
                  THEN MulA(gdp, self.initial_subnational_revenue_gdp)
                  ELSE MulA(self.total_subnational_own_revenue,
                            S + nominal_gdp_growth + self.subnational_revenue_capacity_growth)
  IN [self EXCEPT
        !.subnational_revenue_capacity_index = Mul(@, S + self.subnational_revenue_capacity_growth),
        !.total_subnational_own_revenue = Max(0, base_rev)]

_simulate_subnational_spending(self) ==
  LET available_resources == self.total_transfers + self.total_subnational_own_revenue
      potential_spending == MulA(available_resources, 950)
  IN [self EXCEPT
        !.total_subnational_spending = Max(0, MulA(potential_spending, self.subnational_spending_efficiency))]

_update_subnational_debt(self, st) ==
  LET subnational_deficit == self.total_subnational_spending
                             - (self.total_transfers + self.total_subnational_own_revenue)
      new_borrowing == Max(0, subnational_deficit)
      gdp == Econ(st, "gdp", U)
      debt_limit_amount == MulA(gdp, self.subnational_debt_limit_gdp)
      allowed_borrowing == Max(0, debt_limit_amount - self.aggregate_subnational_debt)
      actual_borrowing == Min(new_borrowing, allowed_borrowing)
  IN [self EXCEPT !.aggregate_subnational_debt = Max(0, @ + actual_borrowing)]

simulate_fiscal_federalism(self, st) ==
  LET initial_gdp == Econ(st, "gdp", 0)
      m0 == IF self.initialized THEN self ELSE FiscalFederalism_initialize_state(self, initial_gdp)
      m == _update_subnational_debt(
             _simulate_subnational_spending(
               _simulate_subnational_revenue(_calculate_central_transfers(m0, st), st)), st)
  IN IF ~self.initialized /\ ~(initial_gdp > 0)
     THEN [self |-> self, ret |-> RetTuple(<<EmptyDict, 0>>)]
     ELSE [self |-> m,
           ret |-> RetDict([total_transfers |-> m.total_transfers,
                            total_subnational_own_revenue |-> m.total_subnational_own_revenue,
                            total_subnational_spending |-> m.total_subnational_spending,
                            aggregate_subnational_debt |-> m.aggregate_subnational_debt])]

(***************************************************************************)
(* ExpenditureModel (no private state)                                     *)
(***************************************************************************)
simulate_expenditure(budget_allocation, implementation_capacity, accountability_mechanisms, political_economy) ==
  LET efficiency_factor == (implementation_capacity + accountability_mechanisms) \div 2
      actual_spending_total == MulA(budget_allocation, efficiency_factor)
  IN RetDict([actual_spending |-> [development |-> MulA(actual_spending_total, 600),
                                   non_development |-> MulA(actual_spending_total, 400)],
              expenditure_efficiency |-> efficiency_factor])

(***************************************************************************)
(* SOEModel                                                                *)
(***************************************************************************)
SOEModel(config) ==
  [ initial_performance_index |-> Get(config, "initial_soe_performance", 400),
    initial_soe_debt_gdp |-> Get(config, "initial_soe_debt_gdp", 100),
    gdp_growth_sensitivity |-> Get(config, "soe_gdp_sensitivity", 300),
    governance_sensitivity |-> Get(config, "soe_governance_sensitivity", 200),
    debt_drag_factor |-> Get(config, "soe_debt_drag", -100),
    dividend_payout_ratio |-> Get(config, "soe_dividend_payout", 200),
    transfer_need_threshold |-> Get(config, "soe_transfer_threshold", 300),
    transfer_scale_factor |-> Get(config, "soe_transfer_scale", 10),
    performance_index |-> Get(config, "initial_soe_performance", 400),
    soe_debt_stock |-> 0, initialized |-> FALSE ]

_initialize_debt(self, initial_gdp) ==
  [self EXCEPT !.soe_debt_stock = MulA(initial_gdp, self.initial_soe_debt_gdp),
               !.initialized = TRUE]

\* The divisors line 40 divides by: the GDP, when the guard lets it.
Divisors_update_financial_performance(st) ==
  IF Econ(st, "gdp", 0) > 0 THEN {Econ(st, "gdp", U)} ELSE {}

_update_financial_performance(self, st) ==
  LET gdp_growth == Econ(st, "gdp_growth", 50)
      governance_score == Gov(st, "governance_index", 50 * S) \div 100
      current_debt_gdp == IF Econ(st, "gdp", 0) > 0
                          THEN Ratio(self.soe_debt_stock, Econ(st, "gdp", U)) ELSE 0
      performance_change == Mul(self.gdp_growth_sensitivity, gdp_growth)
                          + Mul(self.governance_sensitivity, governance_score - 500)
                          + Mul(self.debt_drag_factor, current_debt_gdp - self.initial_soe_debt_gdp)
  IN [self EXCEPT !.performance_index = Max(100, Min(900, @ + performance_change))]

_calculate_fiscal_impact_if_not_elif(self) ==
  LET dividends == IF self.performance_index > 550
                   THEN MulA(MulA(MulA(self.soe_debt_stock, self.performance_index - 500), 100),
                             self.dividend_payout_ratio)
                   ELSE 0
      transfers == IF self.performance_index < 900
                   THEN MulA(MulA(self.soe_debt_stock, 900 - self.performance_index),
                             self.transfer_scale_factor)
                   ELSE 0
  IN <<dividends, transfers>>

_calculate_fiscal_impact(self) ==
  IF self.performance_index > 550
  THEN <<MulA(MulA(MulA(self.soe_debt_stock, self.performance_index - 500), 100),
              self.dividend_payout_ratio), 0>>
  ELSE IF self.performance_index < self.transfer_need_threshold
       THEN <<0, MulA(MulA(self.soe_debt_stock,
                           self.transfer_need_threshold - self.performance_index),
                      self.transfer_scale_factor)>>
       ELSE <<0, 0>>

_update_soe_debt(self, transfers_received, dividends_paid) ==
  LET implied_profit_loss == MulA(MulA(self.soe_debt_stock, self.performance_index - 500), 100)
      debt_change == (transfers_received - implied_profit_loss) - dividends_paid
  IN [self EXCEPT !.soe_debt_stock = Max(0, @ + debt_change)]

simulate_soe_sector_unguarded(self, st) ==
  LET initial_gdp == Econ(st, "gdp", 0)
      m0 == IF self.initialized THEN self ELSE _initialize_debt(self, initial_gdp)
      m1 == _update_financial_performance(m0, st)
      impact == _calculate_fiscal_impact(m1)
      m == _update_soe_debt(m1, impact[2], impact[1])
  IN [self |-> m, ret |-> <<impact[1], impact[2], m.soe_debt_stock>>]

simulate_soe_sector_reinitializing(self, st) ==
  LET initial_gdp == Econ(st, "gdp", 0)
      m0 == IF initial_gdp > 0 THEN _initialize_debt(self, initial_gdp) ELSE self
      m1 == _update_financial_performance(m0, st)
      impact == _calculate_fiscal_impact(m1)
      m == _update_soe_debt(m1, impact[2], impact[1])
  IN IF ~self.initialized /\ ~(initial_gdp > 0)
     THEN [self |-> self, ret |-> <<0, 0, 0>>]
     ELSE [self |-> m, ret |-> <<impact[1], impact[2], m.soe_debt_stock>>]

simulate_soe_sector(self, st) ==
  LET initial_gdp == Econ(st, "gdp", 0)
      m0 == IF self.initialized THEN self ELSE _initialize_debt(self, initial_gdp)
      m1 == _update_financial_performance(m0, st)
      impact == _calculate_fiscal_impact(m1)
      m == _update_soe_debt(m1, impact[2], impact[1])
  IN IF ~self.initialized /\ ~(initial_gdp > 0)
     THEN [self |-> self, ret |-> <<0, 0, 0>>]
     ELSE [self |-> m, ret |-> <<impact[1], impact[2], m.soe_debt_stock>>]

(***************************************************************************)
(* DebtManagementModel                                                     *)
(***************************************************************************)
ZeroStock == [total |-> 0, domestic |-> 0, external |-> 0]

DebtManagementModel(config) ==
  LET initial_stock == Get(config, "initial_debt_stock", ZeroStock)
  IN [ debt_stock |-> [total |-> Get(initial_stock, "total", 0),
                       domestic |-> Get(initial_stock, "domestic", 0),
                       external |-> Get(initial_stock, "external", 0)],
       avg_interest_rate_domestic |-> Get(config, "avg_interest_rate_domestic", 80),
       avg_interest_rate_external |-> Get(config, "avg_interest_rate_external", 30),
       dsa_thresholds |-> Get(config, "dsa_thresholds", [debt_to_gdp |-> 700]) ]

_calculate_debt_service(self) ==
  LET interest_domestic == MulA(self.debt_stock.domestic, self.avg_interest_rate_domestic)
      interest_external == MulA(self.debt_stock.external, self.avg_interest_rate_external)
      principal_repayment_domestic == MulA(self.debt_stock.domestic, 50)
      principal_repayment_external == MulA(self.debt_stock.external, 30)
  IN [ interest_domestic |-> interest_domestic,
       interest_external |-> interest_external,
       total_interest |-> interest_domestic + interest_external,
       principal_domestic |-> principal_repayment_domestic,
       principal_external |-> principal_repayment_external,
       total_principal |-> principal_repayment_domestic + principal_repayment_external,
       total_service |-> (interest_domestic + interest_external)
                         + (principal_repayment_domestic + principal_repayment_external) ]

\* The divisors of lines 53, 71 and 76: the total stock (guarded), the GDP
\* and the total revenue (each replaced by 1 when <= 0).
Divisors_simulate_debt_dynamics(self, st) ==
  LET gdp0 == Econ(st, "gdp", U)
      total_revenue0 == Get(st, "total_revenue", U)
  IN (IF self.debt_stock.total <= 0 THEN {} ELSE {self.debt_stock.total})
     \cup {IF gdp0 <= 0 THEN U ELSE gdp0}
     \cup {IF total_revenue0 <= 0 THEN U ELSE total_revenue0}

_update_debt_stock_external_unfinanced(self, debt_service, deficit_financing) ==
  LET total_current_debt == self.debt_stock.total
      domestic_share == IF total_current_debt <= 0 THEN 500
                        ELSE Ratio(self.debt_stock.domestic, total_current_debt)
      domestic == self.debt_stock.domestic + Mul(deficit_financing, domestic_share)
                  - debt_service.principal_domestic
      external == self.debt_stock.external - debt_service.principal_external
  IN [self EXCEPT !.debt_stock = [total |-> domestic + external,
                                  domestic |-> domestic,
                                  external |-> external]]

_update_debt_stock(self, debt_service, deficit_financing) ==
  LET total_current_debt == self.debt_stock.total
      domestic_share == IF total_current_debt <= 0 THEN 500
                        ELSE Ratio(self.debt_stock.domestic, total_current_debt)
      new_borrowing_domestic == Mul(deficit_financing, domestic_share)
      new_borrowing_external == Mul(deficit_financing, S - domestic_share)
      domestic == self.debt_stock.domestic + new_borrowing_domestic - debt_service.principal_domestic
      external == self.debt_stock.external + new_borrowing_external - debt_service.principal_external
  IN [self EXCEPT !.debt_stock = [total |-> domestic + external,
                                  domestic |-> domestic,
                                  external |-> external]]

\* st is state_for_dsa: the shallow copy with debt_stock and debt_service put in
_perform_dsa(self, st) ==
  LET gdp0 == Econ(st, "gdp", U)
      gdp == IF gdp0 <= 0 THEN U ELSE gdp0
      debt_to_gdp == Ratio(self.debt_stock.total, gdp)
      total_revenue0 == Get(st, "total_revenue", U)
      total_revenue == IF total_revenue0 <= 0 THEN U ELSE total_revenue0
      debt_service == Get(st, "debt_service", EmptyDict)
  IN [ debt_to_gdp |-> debt_to_gdp,
       debt_service_to_revenue |-> Ratio(Get(debt_service, "total_service", 0), total_revenue),
       breached_threshold |-> debt_to_gdp > Get(self.dsa_thresholds, "debt_to_gdp", 700) ]

\* A Python reference to the model's own stock dict: simulate_debt_dynamics
\* returns self.debt_stock itself, not a copy.
DebtStockRef == [kind |-> "ref", val |-> "debt_model.debt_stock"]

simulate_debt_dynamics_service_after_borrowing(self, st, deficit_financing) ==
  LET m == _update_debt_stock(self, _calculate_debt_service(self), deficit_financing)
      debt_service == _calculate_debt_service(m)
      state_for_dsa == Put(Put(st, "debt_stock", DebtStockRef), "debt_service", debt_service)
  IN [self |-> m, ret |-> <<DebtStockRef, _perform_dsa(m, state_for_dsa), debt_service>>]

simulate_debt_dynamics(self, st, deficit_financing) ==
  LET debt_service == _calculate_debt_service(self)
      m == _update_debt_stock(self, debt_service, deficit_financing)
      state_for_dsa == Put(Put(st, "debt_stock", DebtStockRef), "debt_service", debt_service)
  IN [self |-> m, ret |-> <<DebtStockRef, _perform_dsa(m, state_for_dsa), debt_service>>]

(***************************************************************************)
(* PolicyCoordinationModel                                                 *)
(***************************************************************************)
PolicyCoordinationModel(config) ==
  [ base_coordination_score |-> Get(config, "base_coordination_score", 600),
    conflict_threshold_inflation |-> Get(config, "conflict_threshold_inflation", 80),
    conflict_threshold_deficit |-> Get(config, "conflict_threshold_deficit", 50),
    conflict_impact |-> Get(config, "conflict_impact", -100),
    institutional_impact |-> Get(config, "institutional_impact", 50),
    current_coordination_score |-> Get(config, "base_coordination_score", 600) ]

\* The divisor of line 22.
Divisors_assess_policy_conflict(st) ==
  IF Econ(st, "gdp", U) > 0 THEN {Econ(st, "gdp", U)} ELSE {}

_assess_policy_conflict(self, st) ==
  LET inflation == Get(st, "inflation", 70)
      deficit == Get(st, "deficit", 0)
      gdp == Econ(st, "gdp", U)
      deficit_gdp_ratio == IF gdp > 0 THEN Ratio(deficit, gdp) ELSE 0
  IN inflation > self.conflict_threshold_inflation
     /\ deficit_gdp_ratio > self.conflict_threshold_deficit

_assess_institutional_framework(self, st) ==
  Get(st, "governance_index", 50 * S) \div 100

simulate_coordination(self, st) ==
  LET conflict_exists == _assess_policy_conflict(self, st)
      framework_strength == _assess_institutional_framework(self, st)
      score_change == (IF conflict_exists THEN self.conflict_impact ELSE 0)
                    + (IF framework_strength > 500
                       THEN Mul(self.institutional_impact, framework_strength - 500) * 2
                       ELSE 0)
      m == [self EXCEPT !.current_coordination_score = Max(100, Min(900, @ + score_change))]
  IN [self |-> m, ret |-> m.current_coordination_score]

(***************************************************************************)
(* BangladeshPublicFinanceSimulation: the orchestrator                     *)
(***************************************************************************)
VARIABLES
  config,         \* self.config, the loaded configuration document
  state,          \* self.state, the Shared Simulation State
  gov, sup, fin, mp, ext, dev, rev, ff, soe, debt, coord,   \* the sector models
  results,        \* self.results: year -> snapshot
  results_order,  \* the insertion order of self.results' keys
  pc,             \* the step run_simulation is about to run
  year,           \* the loop variable of run_simulation
  local,          \* the local variables of run_single_year
  steps,          \* the steps run so far, as <<year, step>>
  rets            \* the calls a sector's caller made: argument and return

vars == <<config, state, gov, sup, fin, mp, ext, dev, rev, ff, soe, debt, coord,
          results, results_order, pc, year, local, steps, rets>>
models == <<gov, sup, fin, mp, ext, dev, rev, ff, soe, debt, coord>>

StepOrder == << "econ", "governance", "supervision", "financial", "monetary",
                "external", "dev_finance", "revenue", "fiscal_federalism",
                "expenditure", "soe", "aggregate", "debt", "primary",
                "coordination", "snapshot" >>

\* The draws of np.random.normal(0, 0.05), random.uniform(0.98, 1.05) and
\* random.uniform(0.90, 1.10).
NoiseDraws == {-50, 50}
GlobalFactorDraws == {980, 1050}
GlobalAidDraws == {900, 1100}

StartYear == 2025

\* A configuration document.  Sector keys it leaves out fall back to the
\* defaults of the constructors.
ConfigOf(end_year, initial_gdp, debt_stock, soe_performance, transfer_ratio) ==
  [ simulation |-> [ start_year |-> StartYear,
                     end_year |-> end_year,
                     initial_gdp |-> initial_gdp,
                     initial_gdp_growth |-> 60,
                     base_real_gdp_growth |-> 60,
                     initial_inflation |-> 90,
                     inflation_persistence |-> 700 ],
    revenue_model |-> [ tax_structure |-> [vat_rate |-> 150] ],
    expenditure_model |-> EmptyDict,
    debt_model |-> [ initial_debt_gdp_ratio |-> 400, initial_debt_stock |-> debt_stock ],
    financial_sector |-> [ initial_npl_ratio |-> 110 ],
    monetary_policy |-> EmptyDict,
    policy_coordination |-> EmptyDict,
    governance_model |-> EmptyDict,
    supervision_model |-> EmptyDict,
    soe_model |-> [ initial_soe_performance |-> soe_performance ],
    external_sector |-> EmptyDict,
    fiscal_federalism |-> [ transfer_ratio_central_revenue |-> transfer_ratio ],
    development_finance |-> EmptyDict ]

Configs ==
  { ConfigOf(e, g, d, p, r) :
      e \in (StartYear - 1) .. (StartYear + MaxYears - 1),
      g \in {0, 1000 * U},
      d \in {ZeroStock, [total |-> 400 * U, domestic |-> 240 * U, external |-> 160 * U]},
      p \in {200, 800},
      r \in {100, 700} }

_initialize_state(cfg) ==
  [ economic_state |-> [ gdp |-> cfg.simulation.initial_gdp,
                         gdp_growth |-> cfg.simulation.initial_gdp_growth,
                         real_gdp_growth |-> cfg.simulation.base_real_gdp_growth ],
    inflation |-> cfg.simulation.initial_inflation,
    debt_stock |-> [kind |-> "float",
                    val |-> MulA(cfg.simulation.initial_gdp, cfg.debt_model.initial_debt_gdp_ratio)],
    npl_ratio |-> cfg.financial_sector.initial_npl_ratio,
    fx_reserves |-> 0,
    soe_debt_stock |-> 0,
    governance_state |-> EmptyDict,
    revenue_state |-> EmptyDict,
    expenditure_state |-> EmptyDict,
    debt_state |-> EmptyDict,
    financial_sector_state |-> EmptyDict,
    monetary_policy_state |-> EmptyDict,
    policy_coordination_state |-> EmptyDict,
    supervision_state |-> EmptyDict,
    soe_state |-> EmptyDict,
    external_sector_state |-> EmptyDict,
    fiscal_federalism_state |-> EmptyDict,
    dev_finance_state |-> EmptyDict,
    deficit |-> 0,
    primary_deficit |-> 0 ]

\* __init__: the models are built from their configuration sub-documents.
Constructed(cfg) ==
  /\ config = cfg
  /\ gov = GovernanceModel(cfg.governance_model)
  /\ sup = SupervisionModel(cfg.supervision_model)
  /\ fin = FinancialSectorModel(cfg.financial_sector)
  /\ mp = MonetaryPolicyModel(cfg.monetary_policy)
  /\ ext = ExternalSectorModel(cfg.external_sector)
  /\ dev = DevelopmentFinanceModel(cfg.development_finance)
  /\ rev = RevenueModel(cfg.revenue_model)
  /\ ff = FiscalFederalismModel(cfg.fiscal_federalism)
  /\ soe = SOEModel(cfg.soe_model)
  /\ debt = DebtManagementModel(cfg.debt_model)
  /\ coord = PolicyCoordinationModel(cfg.policy_coordination)

Init ==
  /\ \E cfg \in Configs : Constructed(cfg) /\ state = _initialize_state(cfg)
  /\ results = EmptyDict
  /\ results_order = <<>>
  /\ pc = "econ"
  /\ year = StartYear
  /\ local = EmptyDict
  /\ steps = <<>>
  /\ rets = <<>>

\* The divisor of line 136.
Divisors_update_economic_state(st) ==
  IF st.economic_state.gdp > 0 THEN {st.economic_state.gdp} ELSE {}

\* The divisor of lines 228 and 241.
Divisors_deficit_gdp(st) ==
  IF st.economic_state.gdp > 0 THEN {st.economic_state.gdp} ELSE {}

\* The divisor of lines 263-299: "x / gdp if gdp else np.nan".
Divisors_store_results_unguarded(st) == {st.economic_state.gdp}

Divisors_store_results(st) ==
  IF st.economic_state.gdp # 0 THEN {st.economic_state.gdp} ELSE {}

_update_economic_state_ignoring_projection(st, cfg, noise) ==
  LET current_real_growth == Mul(cfg.simulation.base_real_gdp_growth, S + noise)
      prev_inflation == st.inflation
      base_inflation ==
        Mul(prev_inflation, cfg.simulation.inflation_persistence)
        + Mul(S - cfg.simulation.inflation_persistence, cfg.simulation.initial_inflation)
      current_inflation == Max(10, Min(150, base_inflation))
      prev_gdp == st.economic_state.gdp
      current_gdp == MulA(MulA(prev_gdp, S + current_real_growth), S + current_inflation)
      gdp_growth == IF prev_gdp > 0 THEN Ratio(current_gdp, prev_gdp) - S ELSE 0
      economic_state == [gdp |-> current_gdp,
                         gdp_growth |-> gdp_growth,
                         real_gdp_growth |-> current_real_growth,
                         inflation_rate |-> current_inflation] @@ st.economic_state
  IN Put(Put(st, "economic_state", economic_state), "inflation", current_inflation)

\* noise is the draw np.random.normal(0, 0.05)
_update_economic_state(st, cfg, noise) ==
  LET current_real_growth == Mul(cfg.simulation.base_real_gdp_growth, S + noise)
      prev_inflation == st.inflation
      base_inflation ==
        IF "projected_inflation" \in DOMAIN st.monetary_policy_state
        THEN st.monetary_policy_state.projected_inflation
        ELSE Mul(prev_inflation, cfg.simulation.inflation_persistence)
             + Mul(S - cfg.simulation.inflation_persistence, cfg.simulation.initial_inflation)
      current_inflation == Max(10, Min(150, base_inflation))
      prev_gdp == st.economic_state.gdp
      current_gdp == MulA(MulA(prev_gdp, S + current_real_growth), S + current_inflation)
      gdp_growth == IF prev_gdp > 0 THEN Ratio(current_gdp, prev_gdp) - S ELSE 0
      economic_state == [gdp |-> current_gdp,
                         gdp_growth |-> gdp_growth,
                         real_gdp_growth |-> current_real_growth,
                         inflation_rate |-> current_inflation] @@ st.economic_state
  IN Put(Put(st, "economic_state", economic_state), "inflation", current_inflation)

\* self.state[key] = outputs; self.state.update(outputs)
Merge(st, key, outputs) == Update(Put(st, key, outputs), outputs)

Ran(step) == steps' = Append(steps, <<year, step>>)

\* A division by zero ends the run with ZeroDivisionError.
ZeroDivision(step) ==
  /\ pc' = "ZeroDivisionError" /\ Ran(step)
  /\ UNCHANGED <<config, state, models, results, results_order, year, local, rets>>

EconStep ==
  /\ pc = "econ" /\ year <= config.simulation.end_year
  /\ IF 0 \in Divisors_update_economic_state(state)
     THEN ZeroDivision("econ")
     ELSE /\ \E noise \in NoiseDraws : state' = _update_economic_state(state, config, noise)
          /\ pc' = "governance" /\ Ran("econ")
          /\ UNCHANGED <<config, models, results, results_order, year, local, rets>>

GovernanceStep ==
  /\ pc = "governance"
  /\ LET r == simulate_governance_evolution(gov, state)
     IN gov' = r.self /\ state' = Merge(state, "governance_state", r.ret.val)
  /\ pc' = "supervision" /\ Ran("governance")
  /\ UNCHANGED <<config, sup, fin, mp, ext, dev, rev, ff, soe, debt, coord,
                 results, results_order, year, local, rets>>

SupervisionStep_without_promotion ==
  /\ pc = "supervision"
  /\ LET r == simulate_supervision_effectiveness(sup, state)
     IN /\ sup' = r.self
        /\ state' = Put(state, "supervision_state", [supervision_effectiveness |-> r.ret])
  /\ pc' = "financial" /\ Ran("supervision")
  /\ UNCHANGED <<config, gov, fin, mp, ext, dev, rev, ff, soe, debt, coord,
                 results, results_order, year, local, rets>>

SupervisionStep ==
  /\ pc = "supervision"
  /\ LET r == simulate_supervision_effectiveness(sup, state)
     IN /\ sup' = r.self
        /\ state' = Merge(state, "supervision_state", [supervision_effectiveness |-> r.ret])
  /\ pc' = "financial" /\ Ran("supervision")
  /\ UNCHANGED <<config, gov, fin, mp, ext, dev, rev, ff, soe, debt, coord,
                 results, results_order, year, local, rets>>

FinancialStep ==
  /\ pc = "financial"
  /\ LET r == simulate_financial_system(fin, state)
     IN fin' = r.self /\ state' = Merge(state, "financial_sector_state", r.ret.val)
  /\ pc' = "monetary" /\ Ran("financial")
  /\ UNCHANGED <<config, gov, sup, mp, ext, dev, rev, ff, soe, debt, coord,
                 results, results_order, year, local, rets>>

MonetaryStep_then_dev_finance ==
  /\ pc = "monetary"
  /\ LET r == simulate_monetary_conditions(mp, state)
     IN /\ mp' = r.self
        /\ state' = Merge(state, "monetary_policy_state",
                          [policy_rate |-> r.ret[1], projected_inflation |-> r.ret[2]])
  /\ pc' = "dev_finance" /\ Ran("monetary")
  /\ UNCHANGED <<config, gov, sup, fin, ext, dev, rev, ff, soe, debt, coord,
                 results, results_order, year, local, rets>>

MonetaryStep_promotes_inflation ==
  /\ pc = "monetary"
  /\ LET r == simulate_monetary_conditions(mp, state)
     IN /\ mp' = r.self
        /\ state' = Merge(state, "monetary_policy_state",
                          [policy_rate |-> r.ret[1], inflation |-> r.ret[2]])
  /\ pc' = "external" /\ Ran("monetary")
  /\ UNCHANGED <<config, gov, sup, fin, ext, dev, rev, ff, soe, debt, coord,
                 results, results_order, year, local, rets>>

MonetaryStep ==
  /\ pc = "monetary"
  /\ LET r == simulate_monetary_conditions(mp, state)
     IN /\ mp' = r.self
        /\ state' = Merge(state, "monetary_policy_state",
                          [policy_rate |-> r.ret[1], projected_inflation |-> r.ret[2]])
  /\ pc' = "external" /\ Ran("monetary")
  /\ UNCHANGED <<config, gov, sup, fin, ext, dev, rev, ff, soe, debt, coord,
                 results, results_order, year, local, rets>>

\* A tuple handed to dict.update raises ValueError, after the sub-record
\* was assigned.
ExternalStep ==
  /\ pc = "external"
  /\ \E global_factor \in GlobalFactorDraws :
       LET r == simulate_external_sector(ext, state, global_factor)
       IN IF r.ret.kind = "dict" /\ 0 \in Divisors_update_reserves(r.self)
          THEN ZeroDivision("external")
          ELSE /\ ext' = r.self
               /\ IF r.ret.kind = "dict"
                  THEN state' = Merge(state, "external_sector_state", r.ret.val)
                       /\ pc' = "dev_finance"
                  ELSE state' = Put(state, "external_sector_state", r.ret.val)
                       /\ pc' = "raised"
               /\ Ran("external")
               /\ UNCHANGED <<config, gov, sup, fin, mp, dev, rev, ff, soe, debt, coord,
                              results, results_order, year, local, rets>>

DevFinanceStep ==
  /\ pc = "dev_finance"
  /\ \E global_aid_factor \in GlobalAidDraws :
       LET r == simulate_development_finance(dev, state, global_aid_factor)
       IN /\ dev' = r.self
          /\ IF r.ret.kind = "dict"
             THEN state' = Merge(state, "dev_finance_state", r.ret.val)
                  /\ pc' = "revenue"
             ELSE state' = Put(state, "dev_finance_state", r.ret.val)
                  /\ pc' = "raised"
  /\ Ran("dev_finance")
  /\ UNCHANGED <<config, gov, sup, fin, mp, ext, rev, ff, soe, debt, coord,
                 results, results_order, year, local, rets>>

RevenueStep_deep_merge ==
  /\ pc = "revenue"
  /\ LET r == project_revenue(rev, state.economic_state, state.governance_state)
     IN /\ rev' = r.self
        /\ state' = Update(Put(state, "revenue_state", Update(state.revenue_state, r.ret.val)),
                           r.ret.val)
        /\ local' = Put(local, "final_revenue", r.ret.val.final_revenue)
  /\ pc' = "fiscal_federalism" /\ Ran("revenue")
  /\ UNCHANGED <<config, gov, sup, fin, mp, ext, dev, ff, soe, debt, coord,
                 results, results_order, year, rets>>

RevenueStep ==
  /\ pc = "revenue"
  /\ LET r == project_revenue(rev, state.economic_state, state.governance_state)
     IN /\ rev' = r.self
        /\ state' = Merge(state, "revenue_state", r.ret.val)
        /\ local' = Put(local, "final_revenue", r.ret.val.final_revenue)
  /\ pc' = "fiscal_federalism" /\ Ran("revenue")
  /\ UNCHANGED <<config, gov, sup, fin, mp, ext, dev, ff, soe, debt, coord,
                 results, results_order, year, rets>>

FiscalFederalismStep ==
  /\ pc = "fiscal_federalism"
  /\ LET r == simulate_fiscal_federalism(ff, state)
     IN /\ ff' = r.self
        /\ IF r.ret.kind = "dict"
           THEN LET transfers_to_subnational == r.ret.val.total_transfers
                    revenue_for_central_gov == local.final_revenue - transfers_to_subnational
                    merged == Merge(state, "fiscal_federalism_state", r.ret.val)
                IN /\ state' = Put(merged, "revenue_state",
                                   Put(merged.revenue_state, "revenue_for_central_gov",
                                       revenue_for_central_gov))
                   /\ local' = Put(Put(local, "transfers_to_subnational", transfers_to_subnational),
                                   "revenue_for_central_gov", revenue_for_central_gov)
                   /\ pc' = "expenditure"
           ELSE /\ state' = Put(state, "fiscal_federalism_state", r.ret.val)
                /\ local' = local
                /\ pc' = "raised"
  /\ Ran("fiscal_federalism")
  /\ UNCHANGED <<config, gov, sup, fin, mp, ext, dev, rev, soe, debt, coord,
                 results, results_order, year, rets>>

ExpenditureStep ==
  /\ pc = "expenditure"
  /\ LET exp_outputs == simulate_expenditure(
                          Get(state, "final_revenue", 0),
                          Get(state.governance_state, "pfm_effectiveness", 500),
                          Get(state.governance_state, "accountability_index", 500),
                          Get(state.governance_state, "governance_index", 500)).val
     IN /\ state' = Merge(state, "expenditure_state", exp_outputs)
        /\ local' = Put(local, "realized_central_spending",
                        exp_outputs.actual_spending.development
                        + exp_outputs.actual_spending.non_development)
  /\ pc' = "soe" /\ Ran("expenditure")
  /\ UNCHANGED <<config, models, results, results_order, year, rets>>

SOEStep ==
  /\ pc = "soe"
  /\ IF 0 \in Divisors_update_financial_performance(state)
     THEN ZeroDivision("soe")
     ELSE /\ LET r == simulate_soe_sector(soe, state)
             IN /\ soe' = r.self
                /\ state' = Put(Put(state, "soe_state", [dividends |-> r.ret[1],
                                                         transfers_needed |-> r.ret[2],
                                                         debt |-> r.ret[3]]),
                                "soe_debt_stock", r.ret[3])
                /\ local' = Put(Put(local, "soe_dividends", r.ret[1]), "soe_transfers", r.ret[2])
          /\ pc' = "aggregate" /\ Ran("soe")
          /\ UNCHANGED <<config, gov, sup, fin, mp, ext, dev, rev, ff, debt, coord,
                         results, results_order, year, rets>>

FiscalAggregates_without_soe(revenue_for_central_gov, soe_dividends, realized_central_spending, soe_transfers) ==
  [ total_revenue_inc_soe |-> revenue_for_central_gov,
    total_expenditure_inc_soe |-> realized_central_spending,
    deficit |-> realized_central_spending - revenue_for_central_gov ]

\* Lines 219-227: the fiscal aggregates.
FiscalAggregates(revenue_for_central_gov, soe_dividends, realized_central_spending, soe_transfers) ==
  LET total_revenue_inc_soe == revenue_for_central_gov + soe_dividends
      total_expenditure_inc_soe == realized_central_spending + soe_transfers
  IN [ total_revenue_inc_soe |-> total_revenue_inc_soe,
       total_expenditure_inc_soe |-> total_expenditure_inc_soe,
       deficit |-> total_expenditure_inc_soe - total_revenue_inc_soe ]

AggregateStep_records_total_revenue ==
  /\ pc = "aggregate"
  /\ IF 0 \in Divisors_deficit_gdp(state)
     THEN ZeroDivision("aggregate")
     ELSE /\ LET a == FiscalAggregates(local.revenue_for_central_gov, local.soe_dividends,
                                       local.realized_central_spending, local.soe_transfers)
             IN /\ state' = Put(Put(state, "deficit", a.deficit),
                                "total_revenue", a.total_revenue_inc_soe)
                /\ local' = a @@ local
          /\ pc' = "debt" /\ Ran("aggregate")
          /\ UNCHANGED <<config, models, results, results_order, year, rets>>

AggregateStep ==
  /\ pc = "aggregate"
  /\ IF 0 \in Divisors_deficit_gdp(state)
     THEN ZeroDivision("aggregate")
     ELSE /\ LET a == FiscalAggregates(local.revenue_for_central_gov, local.soe_dividends,
                                       local.realized_central_spending, local.soe_transfers)
             IN /\ state' = Put(state, "deficit", a.deficit)
                /\ local' = a @@ local
          /\ pc' = "debt" /\ Ran("aggregate")
          /\ UNCHANGED <<config, models, results, results_order, year, rets>>

DebtStep ==
  /\ pc = "debt"
  /\ IF 0 \in Divisors_simulate_debt_dynamics(debt, state)
     THEN ZeroDivision("debt")
     ELSE /\ LET r == simulate_debt_dynamics(debt, state, local.deficit)
             IN /\ debt' = r.self
                /\ state' = Put(Put(Put(state, "debt_stock", r.ret[1]),
                                    "dsa_results", r.ret[2]),
                                "debt_service_calculated", r.ret[3])
                /\ local' = Put(local, "debt_service_calculated", r.ret[3])
          /\ pc' = "primary" /\ Ran("debt")
          /\ UNCHANGED <<config, gov, sup, fin, mp, ext, dev, rev, ff, soe, coord,
                         results, results_order, year, rets>>

\* Lines 237-240: the primary deficit.
PrimaryDeficit(deficit, debt_service_calculated) ==
  LET interest_payments == Get(debt_service_calculated, "total_interest_paid", 0)
  IN [ interest_payments |-> interest_payments,
       primary_deficit |-> deficit - interest_payments ]

PrimaryStep ==
  /\ pc = "primary"
  /\ IF 0 \in Divisors_deficit_gdp(state)
     THEN ZeroDivision("primary")
     ELSE /\ LET p == PrimaryDeficit(local.deficit, local.debt_service_calculated)
             IN /\ state' = Put(state, "primary_deficit", p.primary_deficit)
                /\ local' = p @@ local
          /\ pc' = "coordination" /\ Ran("primary")
          /\ UNCHANGED <<config, models, results, results_order, year, rets>>

CoordinationStep ==
  /\ pc = "coordination"
  /\ IF 0 \in Divisors_assess_policy_conflict(state)
     THEN ZeroDivision("coordination")
     ELSE /\ LET r == simulate_coordination(coord, state)
             IN /\ coord' = r.self
                /\ state' = Put(state, "policy_coordination_state", [coordination_score |-> r.ret])
          /\ pc' = "snapshot" /\ Ran("coordination")
          /\ UNCHANGED <<config, gov, sup, fin, mp, ext, dev, rev, ff, soe, debt,
                         results, results_order, year, local, rets>>

\* What self.state['debt_stock'] is once the Debt step has run: the Debt
\* model's own stock dict, read through the reference.
DebtStockOf(st, debt_model) == debt_model.debt_stock

\* The shared state as a reader sees it: the reference in state['debt_stock']
\* followed to the Debt model's stock dict.
SharedState(st, debt_model) ==
  IF st.debt_stock.kind = "ref"
  THEN Put(st, "debt_stock", DebtStockOf(st, debt_model))
  ELSE st

\* The snapshot of _store_results; debt_model is what the reference in
\* state['debt_stock'] leads to.
StoreEntry(st, debt_model) ==
  LET gdp == st.economic_state.gdp
      stock == DebtStockOf(st, debt_model)
      Sub(key) == Get(st, key, EmptyDict)
  IN [ GDP |-> Num(gdp),
       GDP_Growth |-> GetNum(st.economic_state, "gdp_growth"),
       Inflation |-> Num(st.economic_state.inflation_rate),
       Total_Revenue |-> GetNum(st, "total_revenue"),
       Central_Revenue |-> GetNum(st, "central_revenue"),
       Revenue_GDP |-> DivGdp(GetNum(st, "total_revenue"), gdp),
       Total_Expenditure |-> GetNum(st, "total_expenditure"),
       Central_Expenditure |-> GetNum(st, "central_expenditure"),
       Expenditure_GDP |-> DivGdp(GetNum(st, "total_expenditure"), gdp),
       Overall_Deficit |-> Num(st.deficit),
       Primary_Deficit |-> GetNum(st, "primary_deficit"),
       Overall_Deficit_GDP |-> DivGdp(Num(st.deficit), gdp),
       Primary_Deficit_GDP |-> DivGdp(Num(st.primary_deficit), gdp),
       Debt_Stock_Total |-> GetNum(stock, "total"),
       Debt_Stock_Domestic |-> GetNum(stock, "domestic"),
       Debt_Stock_External |-> GetNum(stock, "external"),
       Debt_Stock_GDP |-> DivGdp(GetNum(stock, "total"), gdp),
       Debt_Service |-> GetNum(Sub("debt_service_calculated"), "total_service"),
       Interest_Payments |-> GetNum(Sub("debt_service_calculated"), "total_interest_paid"),
       DSA_Debt_GDP_Ratio |-> GetNum(Sub("dsa_results"), "debt_to_gdp"),
       DSA_Service_Revenue_Ratio |-> GetNum(Sub("dsa_results"), "service_to_revenue"),
       Exports |-> GetNum(st.external_sector_state, "exports"),
       Imports |-> GetNum(st.external_sector_state, "imports"),
       Remittances |-> GetNum(st.external_sector_state, "remittances"),
       FDI |-> GetNum(st.external_sector_state, "fdi"),
       CAB_GDP |-> GetNum(st.external_sector_state, "cab_gdp"),
       FX_Reserves_Months |-> GetNum(st.external_sector_state, "reserves_months_imp"),
       Governance_Index |-> Num(st.governance_index),
       PFM_Score |-> GetNum(st.governance_state, "pfm_level"),
       NBR_Score |-> GetNum(st.governance_state, "nbr_capacity"),
       AC_Score |-> GetNum(st.governance_state, "anti_corruption_effectiveness"),
       Accountability_Score |-> GetNum(st.governance_state, "accountability_level"),
       Financial_Stability_Index |-> GetNum(st.financial_sector_state, "financial_stability_index"),
       NPL_Ratio |-> GetNum(st.financial_sector_state, "npl_ratio"),
       CAR_Ratio |-> GetNum(st.financial_sector_state, "capital_adequacy_ratio"),
       Policy_Rate |-> GetNum(st, "policy_rate"),
       Supervision_Effectiveness |-> GetNum(st, "supervision_effectiveness"),
       SOE_Performance |-> GetNum(Sub("soe_state"), "performance_index"),
       SOE_Debt_GDP |-> DivGdp(GetNum(Sub("soe_state"), "debt"), gdp),
       Subnational_Own_Revenue |-> GetNum(Sub("fiscal_federalism_state"), "own_revenue"),
       Subnational_Debt |-> GetNum(Sub("fiscal_federalism_state"), "aggregate_debt"),
       Grant_Receipts |-> GetNum(Sub("development_finance_state"), "grants"),
       DFI_Lending |-> GetNum(Sub("development_finance_state"), "dfi_net_lending"),
       Expenditure_Efficiency |-> GetNum(Sub("expenditure_outputs"), "expenditure_efficiency"),
       Policy_Coordination_Score |-> GetNum(st, "policy_coordination_score") ]

_store_results_refreshing_entries(res, y, st, debt_model) ==
  [k \in DOMAIN res \cup {y} |-> StoreEntry(st, debt_model)]

_store_results_under_start_year(res, y, st, debt_model) ==
  Put(res, StartYear, StoreEntry(st, debt_model))

\* self.results[year] = results_for_year
_store_results(res, y, st, debt_model) == Put(res, y, StoreEntry(st, debt_model))

\* A float has no .get: the snapshot raises if the Debt step never ran.
SnapshotStep ==
  /\ pc = "snapshot"
  /\ IF 0 \in Divisors_store_results(state)
     THEN /\ pc' = "ZeroDivisionError"
          /\ UNCHANGED <<results, results_order, year, local>>
     ELSE IF state.debt_stock.kind = "ref"
     THEN /\ results' = _store_results(results, year, state, debt)
          /\ results_order' = IF DOMAIN results' = DOMAIN results THEN results_order
                              ELSE Append(results_order,
                                          CHOOSE k \in DOMAIN results' : k \notin DOMAIN results)
          /\ pc' = "econ"
          /\ year' = year + 1
          /\ local' = EmptyDict
     ELSE /\ pc' = "raised"
          /\ UNCHANGED <<results, results_order, year, local>>
  /\ Ran("snapshot")
  /\ UNCHANGED <<config, state, models, rets>>

\* run_simulation leaves its loop and returns the table.
Finish ==
  /\ pc = "econ" /\ year > config.simulation.end_year
  /\ pc' = "done"
  /\ UNCHANGED <<config, state, models, results, results_order, year, local, steps, rets>>

Next == EconStep \/ GovernanceStep \/ SupervisionStep \/ FinancialStep \/ MonetaryStep
        \/ ExternalStep \/ DevFinanceStep \/ RevenueStep \/ FiscalFederalismStep
        \/ ExpenditureStep \/ SOEStep \/ AggregateStep \/ DebtStep \/ PrimaryStep
        \/ CoordinationStep \/ SnapshotStep \/ Finish

Spec == Init /\ [][Next]_vars

\* A caller of run_single_year that sets economic_state.gdp to 0 between
\* two years, once the lazily-initialized sectors are active.
ForceZeroGdp ==
  /\ pc = "econ" /\ year <= config.simulation.end_year
  /\ ext.initialized /\ dev.initialized /\ ff.initialized /\ soe.initialized
  /\ state.economic_state.gdp > 0
  /\ state' = [state EXCEPT !.economic_state.gdp = 0]
  /\ UNCHANGED <<config, models, results, results_order, pc, year, local, steps, rets>>

NextForcedGdp == Next \/ ForceZeroGdp

SpecForcedGdp == Init /\ [][NextForcedGdp]_vars

(***************************************************************************)
(* Construction from a loaded configuration document                       *)
(***************************************************************************)
Without(d, k) == [x \in DOMAIN d \ {k} |-> d[x]]

\* A complete document, and documents that leave one key out.
BaseDocument == ConfigOf(StartYear + 1, 1000 * U, ZeroStock, 800, 100)

\* A document whose initial indices lie outside their ranges.
StressDocument ==
  [ BaseDocument EXCEPT
      !.revenue_model = [ tax_structure |-> [vat_rate |-> 150],
                          compliance_params |-> [initial_compliance |-> 990],
                          admin_capacity |-> [initial_efficiency |-> 1200] ],
      !.governance_model = [ initial_pfm_level |-> 990, initial_nbr_level |-> 990,
                             initial_cb_level |-> 990, initial_ac_level |-> 990,
                             initial_accountability_score |-> 990 ],
      !.supervision_model = [ initial_supervision_effectiveness |-> 990 ],
      !.monetary_policy = [ initial_policy_rate |-> 300 ],
      !.soe_model = [ initial_soe_performance |-> 990 ] ]

Documents ==
  Configs
  \cup { StressDocument }
  \cup { Without(BaseDocument, "simulation"), Without(BaseDocument, "soe_model") }
  \cup { Put(BaseDocument, "simulation", Without(BaseDocument.simulation, k)) :
           k \in { "start_year", "end_year", "initial_gdp", "initial_inflation" } }
  \cup { Put(BaseDocument, "simulation", Put(BaseDocument.simulation, "initial_inflation", v)) :
           v \in { 5, 300 } }
  \cup { Put(BaseDocument, "debt_model", Without(BaseDocument.debt_model, k)) :
           k \in { "initial_debt_gdp_ratio", "initial_debt_stock" } }
  \cup { Put(BaseDocument, "financial_sector", Without(BaseDocument.financial_sector, "initial_npl_ratio")),
         Put(BaseDocument, "soe_model", Without(BaseDocument.soe_model, "initial_soe_performance")),
         Put(BaseDocument, "fiscal_federalism",
             Without(BaseDocument.fiscal_federalism, "transfer_ratio_central_revenue")) }

\* The subscripts config[...][...] of __init__ and _initialize_state, in the
\* order the code evaluates them; every other read is a .get with a default.
Subscripts ==
  << <<"", "simulation">>, <<"simulation", "start_year">>, <<"simulation", "end_year">>,
     <<"", "revenue_model">>, <<"", "expenditure_model">>, <<"", "debt_model">>,
     <<"", "financial_sector">>, <<"", "monetary_policy">>, <<"", "policy_coordination">>,
     <<"", "governance_model">>, <<"", "supervision_model">>, <<"", "soe_model">>,
     <<"", "external_sector">>, <<"", "fiscal_federalism">>, <<"", "development_finance">>,
     <<"simulation", "initial_gdp">>, <<"simulation", "initial_gdp_growth">>,
     <<"simulation", "base_real_gdp_growth">>, <<"simulation", "initial_inflation">>,
     <<"debt_model", "initial_debt_gdp_ratio">>,
     <<"financial_sector", "initial_npl_ratio">> >>

\* The same reads if _initialize_state used .get with a default.
KeyErrors_simulation_only(cfg) ==
  { i \in 1 .. 19 :
      IF Subscripts[i][1] = ""
      THEN Subscripts[i][2] \notin DOMAIN cfg
      ELSE Subscripts[i][1] \in DOMAIN cfg /\ Subscripts[i][2] \notin DOMAIN cfg[Subscripts[i][1]] }

\* The same reads if start_year had a default.
KeyErrors_start_year_defaulted(cfg) ==
  { i \in (1 .. Len(Subscripts)) \ {2} :
      IF Subscripts[i][1] = ""
      THEN Subscripts[i][2] \notin DOMAIN cfg
      ELSE Subscripts[i][1] \in DOMAIN cfg /\ Subscripts[i][2] \notin DOMAIN cfg[Subscripts[i][1]] }

\* The subscripts that raise KeyError for a document.
KeyErrors(cfg) ==
  { i \in 1 .. Len(Subscripts) :
      IF Subscripts[i][1] = ""
      THEN Subscripts[i][2] \notin DOMAIN cfg
      ELSE Subscripts[i][1] \in DOMAIN cfg /\ Subscripts[i][2] \notin DOMAIN cfg[Subscripts[i][1]] }

InitConstruct ==
  /\ config \in Documents
  /\ state = EmptyDict
  /\ gov = EmptyDict /\ sup = EmptyDict /\ fin = EmptyDict /\ mp = EmptyDict
  /\ ext = EmptyDict /\ dev = EmptyDict /\ rev = EmptyDict /\ ff = EmptyDict
  /\ soe = EmptyDict /\ debt = EmptyDict /\ coord = EmptyDict
  /\ results = EmptyDict
  /\ results_order = <<>>
  /\ pc = "construct"
  /\ year = StartYear
  /\ local = EmptyDict
  /\ steps = <<>>
  /\ rets = <<>>

\* __init__: the first failing subscript raises KeyError and no simulation
\* object exists; otherwise the models and the state are built.
Construct ==
  /\ pc = "construct"
  /\ IF KeyErrors(config) # {}
     THEN /\ pc' = "KeyError"
          /\ UNCHANGED <<state, models>>
     ELSE /\ gov' = GovernanceModel(config.governance_model)
          /\ sup' = SupervisionModel(config.supervision_model)
          /\ fin' = FinancialSectorModel(config.financial_sector)
          /\ mp' = MonetaryPolicyModel(config.monetary_policy)
          /\ ext' = ExternalSectorModel(config.external_sector)
          /\ dev' = DevelopmentFinanceModel(config.development_finance)
          /\ rev' = RevenueModel(config.revenue_model)
          /\ ff' = FiscalFederalismModel(config.fiscal_federalism)
          /\ soe' = SOEModel(config.soe_model)
          /\ debt' = DebtManagementModel(config.debt_model)
          /\ coord' = PolicyCoordinationModel(config.policy_coordination)
          /\ state' = _initialize_state(config)
          /\ pc' = "econ"
  /\ UNCHANGED <<config, results, results_order, year, local, steps, rets>>

NextConstruct == Construct \/ Next

SpecConstruct == InitConstruct /\ [][NextConstruct]_vars

(***************************************************************************)
(* The sector models called on their own: a caller other than the          *)
(* orchestrator hands a sector any state dict, any number of times.        *)
(***************************************************************************)

\* The sub-documents that differ from the defaults of the constructors.
SectorConfigOf(external_sector, soe_model, financial_sector, policy_coordination) ==
  [ ConfigOf(StartYear, 1000 * U, ZeroStock, 400, 100) EXCEPT
      !.external_sector = external_sector,
      !.soe_model = soe_model,
      !.financial_sector = financial_sector,
      !.policy_coordination = policy_coordination ]

SectorConfigs ==
  { SectorConfigOf(EmptyDict, EmptyDict, EmptyDict, EmptyDict),
    SectorConfigOf([initial_reserves_months_import |-> 0],
                   [initial_soe_performance |-> 900, soe_dividend_payout |-> 30 * S],
                   [initial_npl_ratio |-> 0, initial_car |-> 400],
                   [base_coordination_score |-> 950, institutional_impact |-> 5 * S]),
    SectorConfigOf([initial_reserves_months_import |-> 0, initial_import_gdp |-> 900],
                   [initial_soe_performance |-> 100, soe_transfer_scale |-> 0],
                   [initial_npl_ratio |-> 300, initial_car |-> 20],
                   [base_coordination_score |-> 50, conflict_impact |-> -S]) }

\* A state dict a caller passes: with economic_state.gdp, or without.
TestState(gdp, gdp_growth, governance_index, inflation, deficit) ==
  [ economic_state |-> [gdp |-> gdp, gdp_growth |-> gdp_growth],
    governance_state |-> [governance_index |-> governance_index,
                          pfm_reform_level |-> governance_index \div 100],
    governance_index |-> governance_index,
    inflation |-> inflation,
    deficit |-> deficit,
    supervision_effectiveness |-> governance_index \div 100,
    revenue_state |-> [final_revenue |-> 80 * U] ]

TestStates ==
  { [inflation |-> 70],
    TestState(0, 60, 50 * S, 70, 0),
    TestState(0 - 100 * U, 60, 50 * S, 70, 0),
    TestState(1000 * U, 0 - 100, 20 * S, 120, 100 * U),
    TestState(1000 * U, 150, 80 * S, 30, 0 - 20 * U) }

SectorCalls == { "call_external", "call_dev_finance", "call_fiscal_federalism",
                 "call_soe", "call_financial", "call_coordination" }

InitSectors ==
  /\ \E cfg \in SectorConfigs : Constructed(cfg)
  /\ state = EmptyDict
  /\ results = EmptyDict
  /\ results_order = <<>>
  /\ pc \in SectorCalls
  /\ year = StartYear
  /\ local = EmptyDict
  /\ steps = <<>>
  /\ rets = <<>>

\* The caller's record of a call: the state dict it passed, what came back.
Called(st, ret) ==
  /\ Len(rets) < MaxCalls
  /\ state' = st
  /\ rets' = Append(rets, [arg |-> st, ret |-> ret])
  /\ UNCHANGED <<config, results, results_order, pc, year, local, steps>>

CallExternal ==
  /\ pc = "call_external"
  /\ \E st \in TestStates, global_factor \in GlobalFactorDraws :
       LET r == simulate_external_sector(ext, st, global_factor)
       IN ext' = r.self /\ Called(st, r.ret)
  /\ UNCHANGED <<gov, sup, fin, mp, dev, rev, ff, soe, debt, coord>>

CallDevFinance ==
  /\ pc = "call_dev_finance"
  /\ \E st \in TestStates, global_aid_factor \in GlobalAidDraws :
       LET r == simulate_development_finance(dev, st, global_aid_factor)
       IN dev' = r.self /\ Called(st, r.ret)
  /\ UNCHANGED <<gov, sup, fin, mp, ext, rev, ff, soe, debt, coord>>

CallFiscalFederalism ==
  /\ pc = "call_fiscal_federalism"
  /\ \E st \in TestStates :
       LET r == simulate_fiscal_federalism(ff, st)
       IN ff' = r.self /\ Called(st, r.ret)
  /\ UNCHANGED <<gov, sup, fin, mp, ext, dev, rev, soe, debt, coord>>

CallSOE ==
  /\ pc = "call_soe"
  /\ \E st \in TestStates :
       LET r == simulate_soe_sector(soe, st)
       IN soe' = r.self /\ Called(st, r.ret)
  /\ UNCHANGED <<gov, sup, fin, mp, ext, dev, rev, ff, debt, coord>>

CallFinancial ==
  /\ pc = "call_financial"
  /\ \E st \in TestStates :
       LET r == simulate_financial_system(fin, st)
       IN fin' = r.self /\ Called(st, r.ret)
  /\ UNCHANGED <<gov, sup, mp, ext, dev, rev, ff, soe, debt, coord>>

CallCoordination ==
  /\ pc = "call_coordination"
  /\ \E st \in TestStates :
       LET r == simulate_coordination(coord, st)
       IN coord' = r.self /\ Called(st, r.ret)
  /\ UNCHANGED <<gov, sup, fin, mp, ext, dev, rev, ff, soe, debt>>

NextSectors == CallExternal \/ CallDevFinance \/ CallFiscalFederalism
               \/ CallSOE \/ CallFinancial \/ CallCoordination

SpecSectors == InitSectors /\ [][NextSectors]_vars

(***************************************************************************)
(* Properties of the orchestrator                                          *)
(***************************************************************************)

\* C1: once run_simulation has completed for a configuration with
\* start_year <= end_year, the ledger holds an entry for exactly the years
\* start_year..end_year, and at every moment the keys were inserted in
\* increasing year order from start_year on, without a gap.
C1_LedgerOneEntryPerYear ==
  /\ \A i \in 1 .. Len(results_order) : results_order[i] = config.simulation.start_year + i - 1
  /\ DOMAIN results = { results_order[i] : i \in 1 .. Len(results_order) }
  /\ (pc = "done" /\ config.simulation.start_year <= config.simulation.end_year)
       => DOMAIN results = config.simulation.start_year .. config.simulation.end_year

C1_Witness ==
  /\ pc = "done"
  /\ config.simulation.end_year = config.simulation.start_year + 1
  /\ results_order = <<config.simulation.start_year, config.simulation.end_year>>

\* C2: the steps of a year run once each in the fixed order of StepOrder,
\* a year's steps all come before the next year's, and a step of year Y+1
\* runs only when the snapshot of year Y is in the ledger.
C2_FixedStepOrder ==
  /\ \A i \in 1 .. Len(steps) :
       steps[i] = << StartYear + ((i - 1) \div Len(StepOrder)),
                     StepOrder[((i - 1) % Len(StepOrder)) + 1] >>
  /\ \A i \in 1 .. Len(steps) :
       steps[i][1] > StartYear => (steps[i][1] - 1) \in DOMAIN results
  /\ \A y \in DOMAIN results :
       Len(steps) >= Len(StepOrder) * (y - StartYear + 1)

C2_Witness ==
  /\ Len(steps) = 2 * Len(StepOrder)
  /\ steps[Len(StepOrder)] = <<StartYear, "snapshot">>
  /\ steps[Len(StepOrder) + 1] = <<StartYear + 1, "econ">>
  /\ steps[2 * Len(StepOrder)] = <<StartYear + 1, "snapshot">>

\* C3: from the aggregate computation of a year until the next year's
\* economic update, the deficit in the shared state is (the sum of the
\* year's actual spending + the year's SOE transfers) - ((the year's final
\* revenue - the year's transfers to subnational governments) + the year's
\* SOE dividends), and the year's ledger entry records it as Overall_Deficit.
C3_DeficitIdentity ==
  LET total_expenditure == (state.expenditure_state.actual_spending.development
                            + state.expenditure_state.actual_spending.non_development)
                           + state.soe_state.transfers_needed
      total_revenue == (state.revenue_state.final_revenue
                        - state.fiscal_federalism_state.total_transfers)
                       + state.soe_state.dividends
  IN /\ pc \in {"debt", "primary", "coordination", "snapshot"}
          => state.deficit = total_expenditure - total_revenue
     /\ (pc \in {"econ", "done"} /\ (year - 1) \in DOMAIN results)
          => /\ state.deficit = total_expenditure - total_revenue
             /\ results[year - 1].Overall_Deficit = Num(total_expenditure - total_revenue)

C3_Witness ==
  /\ pc = "econ" /\ (year - 1) \in DOMAIN results
  /\ state.soe_state.dividends > 0
  /\ state.fiscal_federalism_state.total_transfers > 0
  /\ results[year - 1].Overall_Deficit = Num(state.deficit)
  /\ state.deficit # 0

C3_WitnessTransfers ==
  /\ pc = "econ" /\ (year - 1) \in DOMAIN results
  /\ state.soe_state.transfers_needed > 0

\* C4: once the primary deficit of a year is computed, it equals the year's
\* deficit minus the total interest (domestic + external) of the debt
\* service the Debt sector computed that year.
C4_PrimaryDeficitNetOfInterest ==
  pc \in {"coordination", "snapshot"}
    => state.primary_deficit
       = state.deficit - state.debt_service_calculated.total_interest

\* C5: after a call of simulate_debt_dynamics the domestic, the external
\* and the total debt stock are >= 0, and so are the three Debt_Stock_*
\* fields of every ledger entry.
C5_DebtStockNonNegative ==
  /\ pc \in {"primary", "coordination", "snapshot"}
       => /\ debt.debt_stock.domestic >= 0
          /\ debt.debt_stock.external >= 0
          /\ debt.debt_stock.total >= 0
  /\ \A y \in DOMAIN results :
       /\ results[y].Debt_Stock_Total[1] >= 0
       /\ results[y].Debt_Stock_Domestic[1] >= 0
       /\ results[y].Debt_Stock_External[1] >= 0

\* C9: a Debt step that starts from a zero stock leaves a total stock equal
\* to the deficit financing D it was given, and that D is the year's
\* total expenditure - total revenue.
C9_ZeroStockBorrowing ==
  [][ (pc = "debt" /\ pc' = "primary" /\ debt.debt_stock = ZeroStock)
        => /\ debt'.debt_stock.total = local.deficit
           /\ local.deficit = local.total_expenditure_inc_soe - local.total_revenue_inc_soe
           /\ state'.debt_service_calculated.total_interest = 0
           /\ state'.debt_service_calculated.total_principal = 0 ]_vars

C9_Witness ==
  /\ pc = "primary" /\ year = StartYear
  /\ config.debt_model.initial_debt_stock = ZeroStock
  /\ local.deficit > 0
  /\ debt.debt_stock.total = local.deficit

(***************************************************************************)
(* Properties of the sector models                                         *)
(***************************************************************************)

\* C6: after every call of simulate_soe_sector the SOE debt it returned and
\* the one it keeps are >= 0, and after every call of
\* simulate_external_sector fx_reserves, kept and returned, is >= 0.
C6_SoeDebtAndReservesNonNegative ==
  /\ pc = "call_soe"
       => /\ soe.soe_debt_stock >= 0
          /\ \A i \in 1 .. Len(rets) : rets[i].ret[3] >= 0
  /\ pc = "call_external"
       => /\ ext.fx_reserves >= 0
          /\ \A i \in 1 .. Len(rets) :
               rets[i].ret.kind = "dict" => rets[i].ret.val.fx_reserves >= 0

C6_Witness ==
  /\ pc = "call_external" /\ Len(rets) >= 1
  /\ ext.initialized
  /\ ext.overall_bop < 0
  /\ ext.fx_reserves = 0
  /\ rets[Len(rets)].ret.val.fx_reserves = 0

\* C7: every value the Financial sector produces has an NPL ratio >= 0.01
\* and a capital adequacy ratio within [0.05, 0.25], and every score the
\* Policy Coordination sector produces is within [0.1, 0.9], whatever the
\* configured initial values.
C7_ClampedRatios ==
  /\ (pc = "call_financial" /\ Len(rets) >= 1)
       => /\ fin.npl_ratio >= 10
          /\ fin.capital_adequacy_ratio >= 50 /\ fin.capital_adequacy_ratio <= 250
          /\ \A i \in 1 .. Len(rets) :
               /\ rets[i].ret.val.npl_ratio >= 10
               /\ rets[i].ret.val.capital_adequacy_ratio >= 50
               /\ rets[i].ret.val.capital_adequacy_ratio <= 250
  /\ (pc = "call_coordination" /\ Len(rets) >= 1)
       => /\ coord.current_coordination_score >= 100
          /\ coord.current_coordination_score <= 900
          /\ \A i \in 1 .. Len(rets) : rets[i].ret >= 100 /\ rets[i].ret <= 900

C7_Witness ==
  /\ pc = "call_financial" /\ Len(rets) >= 1
  /\ config.financial_sector = [initial_npl_ratio |-> 0, initial_car |-> 400]
  /\ fin.capital_adequacy_ratio = 250
  /\ fin.npl_ratio = 10

\* C10: a call of ExternalSector, SOE, FiscalFederalism or DevelopmentFinance
\* on a model that is not initialized, with a state whose GDP is absent or
\* <= 0, returns the empty/zero tuple and leaves the model as it was; with
\* a GDP > 0 it leaves the model initialized, in the state a normal year
\* gives to the stocks initialized from that GDP, and returns that result.
C10_GdpGuardedInitialization ==
  [][ Len(rets') = Len(rets) + 1 =>
      LET call == rets'[Len(rets')]
          gdp == Econ(call.arg, "gdp", 0)
      IN /\ (pc = "call_external" /\ ~ext.initialized) =>
              IF gdp > 0
              THEN /\ ext'.initialized
                   /\ \E gf \in GlobalFactorDraws :
                        ext' = _update_reserves(_calculate_bop(_project_flows(
                                 ExternalSector_initialize_state(ext, gdp), call.arg, gf)))
                   /\ call.ret.kind = "dict"
                   /\ call.ret.val.imports = ext'.imports
                   /\ call.ret.val.fx_reserves = ext'.fx_reserves
              ELSE ext' = ext /\ ~ext'.initialized /\ call.ret = RetTuple(<<EmptyDict, 0>>)
         /\ (pc = "call_dev_finance" /\ ~dev.initialized) =>
              IF gdp > 0
              THEN /\ dev'.initialized
                   /\ \E gaf \in GlobalAidDraws :
                        dev' = _simulate_flows(DevelopmentFinance_initialize_state(dev, gdp),
                                               call.arg, gaf)
                   /\ call.ret = RetDict([grant_aid |-> dev'.grant_aid,
                                          dfi_net_lending |-> dev'.dfi_net_lending])
              ELSE dev' = dev /\ ~dev'.initialized /\ call.ret = RetTuple(<<EmptyDict, 0, 0>>)
         /\ (pc = "call_fiscal_federalism" /\ ~ff.initialized) =>
              IF gdp > 0
              THEN /\ ff'.initialized
                   /\ ff' = _update_subnational_debt(_simulate_subnational_spending(
                              _simulate_subnational_revenue(_calculate_central_transfers(
                                FiscalFederalism_initialize_state(ff, gdp), call.arg), call.arg)),
                              call.arg)
                   /\ call.ret.kind = "dict"
                   /\ call.ret.val.aggregate_subnational_debt = ff'.aggregate_subnational_debt
              ELSE ff' = ff /\ ~ff'.initialized /\ call.ret = RetTuple(<<EmptyDict, 0>>)
         /\ (pc = "call_soe" /\ ~soe.initialized) =>
              IF gdp > 0
              THEN LET m1 == _update_financial_performance(_initialize_debt(soe, gdp), call.arg)
                       impact == _calculate_fiscal_impact(m1)
                   IN /\ soe'.initialized
                      /\ soe' = _update_soe_debt(m1, impact[2], impact[1])
                      /\ call.ret = <<impact[1], impact[2], soe'.soe_debt_stock>>
              ELSE soe' = soe /\ ~soe'.initialized /\ call.ret = <<0, 0, 0>> ]_vars

C10_Witness ==
  /\ pc = "call_soe" /\ Len(rets) = 2
  /\ "economic_state" \notin DOMAIN rets[1].arg
  /\ rets[1].ret = <<0, 0, 0>>
  /\ Econ(rets[2].arg, "gdp", 0) > 0
  /\ soe.initialized
  /\ soe.soe_debt_stock > 0
  /\ rets[2].ret[3] = soe.soe_debt_stock

(***************************************************************************)
(* Properties of the orchestrator's handling of a missing or zero GDP      *)
(***************************************************************************)

\* C11: a year that runs with GDP 0 while ExternalSector, DevelopmentFinance,
\* FiscalFederalism and SOE are uninitialized does not raise: it goes on to
\* its snapshot and its ledger entry is written.
C11_ZeroGdpYearCompletes ==
  (state.economic_state.gdp = 0
   /\ ~ext.initialized /\ ~dev.initialized /\ ~ff.initialized /\ ~soe.initialized)
    => /\ pc \notin {"raised", "ZeroDivisionError"}
       /\ (Len(steps) >= Len(StepOrder) => StartYear \in DOMAIN results)

\* C12: with the lazily-initialized sectors active, a year whose GDP was
\* forced to 0 raises no division error in any of its steps.
C12_NoDivisionErrorAtZeroGdp ==
  (ext.initialized /\ dev.initialized /\ ff.initialized /\ soe.initialized
   /\ state.economic_state.gdp = 0)
    => pc # "ZeroDivisionError"

C12_Witness ==
  /\ pc = "done"
  /\ ext.initialized /\ dev.initialized /\ ff.initialized /\ soe.initialized
  /\ state.economic_state.gdp = 0
  /\ results[year - 1].GDP = Num(0)
  /\ steps[Len(steps)] = <<year - 1, "snapshot">>

\* C13: a ledger entry of a year whose GDP is 0 records the missing marker
\* for Revenue_GDP, Expenditure_GDP, Overall_Deficit_GDP, Primary_Deficit_GDP,
\* Debt_Stock_GDP, SOE_Debt_GDP and the DSA debt-to-GDP ratio.
C13_RatiosMissingAtZeroGdp ==
  \A y \in DOMAIN results :
    results[y].GDP = Num(0)
      => /\ results[y].Revenue_GDP = NaN
         /\ results[y].Expenditure_GDP = NaN
         /\ results[y].Overall_Deficit_GDP = NaN
         /\ results[y].Primary_Deficit_GDP = NaN
         /\ results[y].Debt_Stock_GDP = NaN
         /\ results[y].SOE_Debt_GDP = NaN
         /\ results[y].DSA_Debt_GDP_Ratio = NaN

(***************************************************************************)
(* Properties of the shared state                                          *)
(***************************************************************************)

\* C14: when a sector's call returns, and before the orchestrator writes its
\* outputs, the shared state, with what is reachable through it, is what it
\* was before the call: the sector changed only its own private state.
C14_SectorCallLeavesSharedState ==
  [][ (pc \in { "governance", "supervision", "financial", "monetary", "external",
                "dev_finance", "revenue", "fiscal_federalism", "expenditure", "soe",
                "debt", "coordination" })
        => SharedState(state, debt') = SharedState(state, debt) ]_vars

\* C15: when a step of year Y is about to run, a shared-state field whose
\* writer comes earlier in the order holds the value its writer produced in
\* year Y, and a field whose writer comes later holds the value recorded for
\* year Y-1 (the initial value, or none, in the first year).  Checked for
\* inflation, governance_index, central_bank_capacity,
\* supervision_effectiveness, npl_ratio, policy_rate, exports, final_revenue
\* and deficit.
C15_FieldsCurrentBeforeStaleAfter ==
  LET Index(step) == CHOOSE i \in 1 .. Len(StepOrder) : StepOrder[i] = step
      RanThisYear(step) == \E i \in 1 .. Len(steps) : steps[i] = <<year, step>>
      Fields ==
        { [key |-> "inflation", writer |-> "econ", column |-> "Inflation",
           current |-> Get(state.economic_state, "inflation_rate", 0),
           initial |-> Num(config.simulation.initial_inflation)],
          [key |-> "governance_index", writer |-> "governance", column |-> "Governance_Index",
           current |-> gov.governance_index, initial |-> NaN],
          [key |-> "central_bank_capacity", writer |-> "governance", column |-> "",
           current |-> gov.central_bank_capacity, initial |-> NaN],
          [key |-> "supervision_effectiveness", writer |-> "supervision",
           column |-> "Supervision_Effectiveness",
           current |-> sup.current_effectiveness, initial |-> NaN],
          [key |-> "npl_ratio", writer |-> "financial", column |-> "NPL_Ratio",
           current |-> fin.npl_ratio,
           initial |-> Num(config.financial_sector.initial_npl_ratio)],
          [key |-> "policy_rate", writer |-> "monetary", column |-> "Policy_Rate",
           current |-> mp.policy_rate, initial |-> NaN],
          [key |-> "exports", writer |-> "external", column |-> "Exports",
           current |-> ext.exports, initial |-> NaN],
          [key |-> "final_revenue", writer |-> "revenue", column |-> "",
           current |-> Get(local, "final_revenue", 0), initial |-> NaN],
          [key |-> "deficit", writer |-> "aggregate", column |-> "Overall_Deficit",
           current |-> Get(local, "deficit", 0), initial |-> Num(0)] }
  IN (pc \in { StepOrder[i] : i \in 1 .. Len(StepOrder) }
      /\ year <= config.simulation.end_year)
       => \A f \in Fields :
            IF Index(f.writer) < Index(pc)
            THEN RanThisYear(f.writer) /\ GetNum(state, f.key) = Num(f.current)
            ELSE /\ ~RanThisYear(f.writer)
                 /\ year = StartYear => GetNum(state, f.key) = f.initial
                 /\ (year > StartYear /\ f.column # "")
                      => GetNum(state, f.key) = results[year - 1][f.column]

C15_Witness ==
  /\ pc = "supervision" /\ year = StartYear + 1
  /\ state.governance_state.central_bank_capacity = gov.central_bank_capacity
  /\ state.governance_state.central_bank_capacity > GovernanceModel(EmptyDict).central_bank_capacity + 5
  /\ Num(state.npl_ratio) = results[StartYear].NPL_Ratio
  /\ state.npl_ratio # config.financial_sector.initial_npl_ratio

\* C16: promotion is additive.  A step that promotes its outputs to the top
\* level deletes no key, and the keys it promotes are none of the sub-record
\* keys, economic_state, inflation, deficit or debt_stock, and none of the
\* keys written earlier in the same year by the economic update or by a
\* different sector; every such key keeps its value across the step.  The
\* Debt step, which promotes nothing, rewrites debt_stock and changes no
\* other top-level key but its own dsa_results and debt_service_calculated.
C16_PromotionIsAdditive ==
  [][ LET SubRecordOf == [ governance |-> "governance_state",
                       supervision |-> "supervision_state",
                       financial |-> "financial_sector_state",
                       monetary |-> "monetary_policy_state",
                       external |-> "external_sector_state",
                       dev_finance |-> "dev_finance_state",
                       revenue |-> "revenue_state",
                       fiscal_federalism |-> "fiscal_federalism_state",
                       expenditure |-> "expenditure_state" ]
      SubRecordKeys == { SubRecordOf[t] : t \in DOMAIN SubRecordOf }
                         \cup { "soe_state", "debt_state", "policy_coordination_state" }
      Protected == SubRecordKeys \cup { "economic_state", "inflation", "deficit", "debt_stock" }
      RanThisYear(step) == \E i \in 1 .. Len(steps) : steps[i] = <<year, step>>
      Earlier == { t \in DOMAIN SubRecordOf : t # pc /\ RanThisYear(t) }
      WrittenEarlier == UNION { DOMAIN state[SubRecordOf[t]] \cap DOMAIN state : t \in Earlier }
      Completed == pc' \notin { "raised", "ZeroDivisionError" }
  IN     /\ (pc \in DOMAIN SubRecordOf /\ Completed)
              => LET promoted == DOMAIN state'[SubRecordOf[pc]]
                     own == { SubRecordOf[pc] }
                              \cup (IF pc = "fiscal_federalism" THEN { "revenue_state" } ELSE {})
                 IN /\ DOMAIN state \subseteq DOMAIN state'
                    /\ promoted \cap (Protected \cup WrittenEarlier) = {}
                    /\ \A k \in ((Protected \cup WrittenEarlier) \cap DOMAIN state) \ own :
                         state'[k] = state[k]
         /\ (pc = "debt" /\ Completed)
              => /\ DOMAIN state \subseteq DOMAIN state'
                 /\ \A k \in DOMAIN state \ { "debt_stock", "dsa_results", "debt_service_calculated" } :
                      state'[k] = state[k] ]_vars

C16_Witness ==
  /\ pc = "coordination" /\ year = StartYear + 1
  /\ \A sub \in { "governance_state", "supervision_state", "financial_sector_state",
                  "monetary_policy_state", "external_sector_state", "dev_finance_state",
                  "fiscal_federalism_state", "expenditure_state" } :
       /\ DOMAIN state[sub] # {}
       /\ \A k \in DOMAIN state[sub] : k \in DOMAIN state /\ state[k] = state[sub][k]
  /\ state.final_revenue = state.revenue_state.final_revenue
  /\ state.inflation = state.economic_state.inflation_rate
  /\ state.debt_stock.kind = "ref"

\* C17: once the twelve sector calls of a year are done, each of the twelve
\* sub-record keys holds the output its sector produced that year; in
\* particular debt_state holds the Debt sector's output (stock, DSA results
\* and debt service).
C17_SubRecordsHoldSectorOutputs ==
  (pc = "snapshot")
    => /\ \A sub \in { "governance_state", "supervision_state", "financial_sector_state",
                       "monetary_policy_state", "external_sector_state", "dev_finance_state",
                       "revenue_state", "fiscal_federalism_state", "expenditure_state",
                       "soe_state", "debt_state", "policy_coordination_state" } :
            sub \in DOMAIN state /\ DOMAIN state[sub] # {}
       /\ state.governance_state.governance_index = gov.governance_index
       /\ state.supervision_state.supervision_effectiveness = sup.current_effectiveness
       /\ state.financial_sector_state.npl_ratio = fin.npl_ratio
       /\ state.monetary_policy_state.policy_rate = mp.policy_rate
       /\ state.external_sector_state.exports = ext.exports
       /\ state.revenue_state.final_revenue = local.final_revenue
       /\ { "debt_stock", "dsa_results", "debt_service_calculated" }
            \subseteq DOMAIN state.debt_state

\* C18: a sector's update replaces its sub-record wholesale.  After the
\* Revenue step, revenue_state is exactly this year's output: the
\* revenue_for_central_gov field that the previous year left in it is gone.
\* At the end of the year every field of a promoted sub-record is the value
\* promoted this year, and revenue_state holds this year's two fields only.
C18_SubRecordsReplacedWholesale ==
  /\ (pc = "fiscal_federalism")
       => state.revenue_state = [ final_revenue |-> local.final_revenue ]
  /\ (pc = "snapshot")
       => /\ state.revenue_state
               = [ final_revenue |-> local.final_revenue,
                   revenue_for_central_gov |-> local.revenue_for_central_gov ]
          /\ \A sub \in { "governance_state", "supervision_state", "financial_sector_state",
                          "monetary_policy_state", "external_sector_state",
                          "dev_finance_state", "fiscal_federalism_state",
                          "expenditure_state" } :
               \A k \in DOMAIN state[sub] : k \in DOMAIN state /\ state[sub][k] = state[k]

C18_Witness ==
  /\ pc = "fiscal_federalism" /\ year = StartYear + 1
  /\ \E i \in 1 .. Len(steps) : steps[i] = <<StartYear, "expenditure">>
  /\ StartYear \in DOMAIN results
  /\ DOMAIN state.revenue_state = { "final_revenue" }

\* C19: the Expenditure output of a year is the one computed from that
\* year's Revenue final_revenue as budget and from the PFM level and the
\* accountability score that Governance produced in the same year as
\* implementation capacity and accountability.
C19_ExpenditureUsesGovernanceOfTheYear ==
  (pc = "soe")
    => state.expenditure_state
         = simulate_expenditure(state.revenue_state.final_revenue,
                                state.governance_state.pfm_reform_level,
                                state.governance_state.accountability_score,
                                state.governance_state.governance_index).val

\* C20: ledger entries are immutable once written.  No step of the run,
\* the Debt model's in-place update of its stock record included, changes
\* or removes the entry of an earlier year, and the order of the entries
\* only grows at its end.
C20_LedgerEntriesImmutable ==
  [][ /\ \A y \in DOMAIN results : y \in DOMAIN results' /\ results'[y] = results[y]
      /\ Len(results_order) <= Len(results_order')
      /\ SubSeq(results_order', 1, Len(results_order)) = results_order ]_vars

C20_Witness ==
  /\ pc = "primary" /\ year = StartYear + 1
  /\ results_order = <<StartYear>>
  /\ state.debt_stock.kind = "ref"
  /\ results[StartYear].Debt_Stock_Total # NaN
  /\ results[StartYear].Debt_Stock_Total # Num(debt.debt_stock.total)

\* C21: no step writes the top-level keys total_revenue and central_revenue,
\* so in every ledger entry Total_Revenue, Central_Revenue and Revenue_GDP
\* are the missing marker.
C21_RevenueMetricsAlwaysMissing ==
  /\ "total_revenue" \notin DOMAIN state
  /\ "central_revenue" \notin DOMAIN state
  /\ \A y \in DOMAIN results :
       /\ results[y].Total_Revenue = NaN
       /\ results[y].Central_Revenue = NaN
       /\ results[y].Revenue_GDP = NaN

C21_Witness ==
  /\ pc = "econ" /\ year = StartYear + 1
  /\ StartYear \in DOMAIN results
  /\ state.final_revenue > 0
  /\ state.revenue_state.revenue_for_central_gov > 0
  /\ results[StartYear].Total_Revenue = NaN
  /\ results[StartYear].GDP # NaN

C23_MissingSectorKeyFallsBack ==
  KeyErrors_simulation_only(config) = {} => pc # "KeyError"

\* C24: once the economic update of a year has run, the year's inflation is
\* the previous year's MonetaryPolicy projected_inflation clamped to
\* [0.01, 0.15], or in the first year
\* persistence * initial_inflation + (1 - persistence) * initial_inflation
\* clamped to the same range; from then on the inflation of Shared State and
\* every Inflation column of the ledger lie in [0.01, 0.15].
C24_InflationFromClampedProjection ==
  LET Clamped(x) == Max(10, Min(150, x))
      sim == config.simulation
      RanIn(y, step) == \E i \in 1 .. Len(steps) : steps[i] = <<y, step>>
  IN /\ (pc = "governance" /\ year = StartYear)
          => state.inflation
               = Clamped(Mul(sim.initial_inflation, sim.inflation_persistence)
                         + Mul(S - sim.inflation_persistence, sim.initial_inflation))
     /\ (pc = "governance" /\ year > StartYear)
          => /\ RanIn(year - 1, "monetary") /\ ~RanIn(year, "monetary")
             /\ state.inflation = Clamped(state.monetary_policy_state.projected_inflation)
     /\ (steps # <<>> /\ pc # "ZeroDivisionError")
          => /\ state.inflation \in 10 .. 150
             /\ state.economic_state.inflation_rate = state.inflation
     /\ \A y \in DOMAIN results : results[y].Inflation[1] \in 10 .. 150

C24_Witness ==
  /\ pc = "governance" /\ year = StartYear + 1
  /\ state.inflation = state.monetary_policy_state.projected_inflation
  /\ Num(state.inflation) # results[StartYear].Inflation
  /\ results[StartYear].Inflation = Num(150)
  /\ config.simulation.initial_inflation = 300

\* C25: once a sector has been advanced, its indices lie in their clamping
\* ranges whatever the configuration and the state were: policy rate in
\* [0.01, 0.15], projected inflation in [0, 0.20], supervision effectiveness
\* in [0.2, 0.95], SOE performance index in [0.1, 0.9], each governance
\* level <= 0.95, revenue admin efficiency <= 1.0 and compliance rate
\* <= 0.95.
C25_AdvancedIndicesInRange ==
  LET Advanced(step) == \E i \in 1 .. Len(steps) : steps[i][2] = step
  IN /\ Advanced("monetary")
          => mp.policy_rate \in 10 .. 150 /\ state.projected_inflation \in 0 .. 200
     /\ Advanced("supervision") => sup.current_effectiveness \in 200 .. 950
     /\ (Advanced("soe") /\ soe.initialized) => soe.performance_index \in 100 .. 900
     /\ Advanced("governance")
          => /\ gov.pfm_reform_level <= 950
             /\ gov.nbr_capacity_level <= 950
             /\ gov.central_bank_capacity <= 950
             /\ gov.anti_corruption_effectiveness <= 950
             /\ gov.accountability_score <= 950
     /\ Advanced("revenue")
          => rev.current_admin_efficiency <= S /\ rev.current_compliance_rate <= 950

\* C26: ExternalSector, DevelopmentFinance, FiscalFederalism and SOE go from
\* Uninitialized to Active on the first call whose state has GDP > 0 and on
\* no other call; an Active sector stays Active; and a call on an Active
\* sector advances the stocks it holds, whatever the GDP of the call, without
\* initializing them from GDP again.
C26_LazyLifecycle ==
  [][ LET gdp == Econ(state', "gdp", 0)
          Lifecycle(before, after) ==
            /\ before.initialized => after.initialized
            /\ ~before.initialized => (after.initialized <=> gdp > 0)
            /\ (~before.initialized /\ ~(gdp > 0)) => after = before
      IN /\ IF pc = "call_external" THEN Lifecycle(ext, ext') ELSE ext' = ext
         /\ IF pc = "call_dev_finance" THEN Lifecycle(dev, dev') ELSE dev' = dev
         /\ IF pc = "call_fiscal_federalism" THEN Lifecycle(ff, ff') ELSE ff' = ff
         /\ IF pc = "call_soe" THEN Lifecycle(soe, soe') ELSE soe' = soe
         /\ (pc = "call_external" /\ ext.initialized)
              => \E global_factor \in GlobalFactorDraws :
                   ext' = _update_reserves(_calculate_bop(_project_flows(ext, state', global_factor)))
         /\ (pc = "call_dev_finance" /\ dev.initialized)
              => \E global_aid_factor \in GlobalAidDraws :
                   dev' = _simulate_flows(dev, state', global_aid_factor)
         /\ (pc = "call_fiscal_federalism" /\ ff.initialized)
              => ff' = _update_subnational_debt(
                         _simulate_subnational_spending(
                           _simulate_subnational_revenue(
                             _calculate_central_transfers(ff, state'), state')), state')
         /\ (pc = "call_soe" /\ soe.initialized)
              => LET m1 == _update_financial_performance(soe, state')
                     impact == _calculate_fiscal_impact(m1)
                 IN soe' = _update_soe_debt(m1, impact[2], impact[1]) ]_vars

C26_Witness ==
  /\ pc = "call_soe" /\ Len(rets) = 3
  /\ ~(Econ(rets[1].arg, "gdp", 0) > 0)
  /\ Econ(rets[2].arg, "gdp", 0) > 0
  /\ Econ(rets[3].arg, "gdp", 1) = 0
  /\ soe.initialized /\ soe.soe_debt_stock > 0

\* C27: after the Debt step of a year whose total revenue (central revenue
\* net of transfers plus SOE dividends, as the orchestrator aggregates it)
\* is positive, the DSA debt-service-to-revenue ratio is that year's total
\* debt service divided by that total revenue.
C27_ServiceToRevenueUsesTotalRevenue ==
  (pc = "primary" /\ local.total_revenue_inc_soe > 0)
    => state.dsa_results.debt_service_to_revenue
         = Ratio(state.debt_service_calculated.total_service, local.total_revenue_inc_soe)

\* C28: in every ledger entry the metrics Interest_Payments,
\* Policy_Coordination_Score, FX_Reserves_Months, Financial_Stability_Index,
\* PFM_Score, DSA_Service_Revenue_Ratio, Grant_Receipts, DFI_Lending,
\* Expenditure_Efficiency and Subnational_Debt are not the missing marker,
\* and right after the snapshot of a year they equal the values the sectors
\* produced that year.
C28_SnapshotRecordsProducedValues ==
  /\ \A y \in DOMAIN results :
       \A column \in { "Interest_Payments", "Policy_Coordination_Score", "FX_Reserves_Months",
                       "Financial_Stability_Index", "PFM_Score", "DSA_Service_Revenue_Ratio",
                       "Grant_Receipts", "DFI_Lending", "Expenditure_Efficiency",
                       "Subnational_Debt" } :
         results[y][column] # NaN
  /\ (pc = "econ" /\ (year - 1) \in DOMAIN results)
       => LET entry == results[year - 1]
          IN /\ entry.Interest_Payments = Num(state.debt_service_calculated.total_interest)
             /\ entry.Policy_Coordination_Score
                  = Num(state.policy_coordination_state.coordination_score)
             /\ entry.FX_Reserves_Months
                  = Num(state.external_sector_state.reserves_months_imports)
             /\ entry.Financial_Stability_Index = Num(state.financial_sector_state.stability_index)
             /\ entry.PFM_Score = Num(state.governance_state.pfm_reform_level)
             /\ entry.DSA_Service_Revenue_Ratio = Num(state.dsa_results.debt_service_to_revenue)
             /\ entry.Grant_Receipts = Num(state.dev_finance_state.grant_aid)
             /\ entry.DFI_Lending = Num(state.dev_finance_state.dfi_net_lending)
             /\ entry.Expenditure_Efficiency = Num(state.expenditure_state.expenditure_efficiency)
             /\ entry.Subnational_Debt
                  = Num(state.fiscal_federalism_state.aggregate_subnational_debt)

\* C29: a call of simulate_debt_dynamics leaves debt_stock.total equal to
\* debt_stock.domestic + debt_stock.external, and the interest and the
\* principal it charges are computed from the stock as it stood before the
\* call, which is the stock recorded at the end of the previous year, not
\* from the stock after the year's new borrowing.
C29_ServiceFromPreviousStock ==
  [][ (pc = "debt" /\ pc' = "primary")
        => LET before == debt.debt_stock
               after == debt'.debt_stock
               service == state'.debt_service_calculated
           IN /\ after.total = after.domestic + after.external
              /\ service.interest_domestic = MulA(before.domestic, debt.avg_interest_rate_domestic)
              /\ service.interest_external = MulA(before.external, debt.avg_interest_rate_external)
              /\ service.total_interest = service.interest_domestic + service.interest_external
              /\ service.principal_domestic = MulA(before.domestic, 50)
              /\ service.principal_external = MulA(before.external, 30)
              /\ service.total_principal = service.principal_domestic + service.principal_external
              /\ year > StartYear
                   => /\ Num(before.total) = results[year - 1].Debt_Stock_Total
                      /\ Num(before.domestic) = results[year - 1].Debt_Stock_Domestic
                      /\ Num(before.external) = results[year - 1].Debt_Stock_External ]_vars

C29_Witness ==
  /\ pc = "primary" /\ year = StartYear + 1
  /\ state.debt_service_calculated.total_interest > 0
  /\ state.debt_service_calculated.total_principal > 0
  /\ local.deficit > 0
  /\ debt.debt_stock.total = debt.debt_stock.domestic + debt.debt_stock.external
  /\ Num(debt.debt_stock.total) # results[StartYear].Debt_Stock_Total

\* C30: the SOE dividends and the SOE transfers needed of a year are both
\* >= 0 and never both non-zero; with a transfer threshold <= 0.55,
\* dividends are positive only when the performance index is above 0.55 and
\* transfers are positive only when it is below the threshold.
C30_DividendsOrTransfers ==
  (DOMAIN state.soe_state # {})
    => LET dividends == state.soe_state.dividends
           transfers == state.soe_state.transfers_needed
       IN /\ dividends >= 0 /\ transfers >= 0
          /\ ~(dividends # 0 /\ transfers # 0)
          /\ soe.transfer_need_threshold <= 550
               => /\ dividends > 0 => soe.performance_index > 550
                  /\ transfers > 0 => soe.performance_index < soe.transfer_need_threshold

C30_Witness ==
  /\ pc = "aggregate" /\ year = StartYear + 1
  /\ state.soe_state.dividends > 0
  /\ state.soe_state.transfers_needed = 0
  /\ soe.performance_index > 550
  /\ soe.transfer_need_threshold <= 550
====
